---- MODULE Spec2Model ----
(***************************************************************************)
(* Zone reset-command interpretation, load locations and assembly          *)
(* accessibility of mud-analyzer.                                          *)
(*                                                                         *)
(* A world is a list of zones (numbered 1, 2, ... in directory order),     *)
(* each with an ordered stream of reset commands.  The stream is read one  *)
(* command at a time; every reader of the repository that folds over the   *)
(* stream is advanced on every command, so that the state after k steps is *)
(* each reader's state at position k of its fold:                          *)
(*   rr  analysis/zone_summary.py    render_resets                         *)
(*   lut mud_lut_new.py              edges_from_zone_cmds                  *)
(*   ds  data_service.py             DataService.get_command_index         *)
(*   gs  global_search.py            GlobalSearch.find_associations        *)
(*   ai  assembled_items.py          _build_zone_command_index             *)
(*   ws  mud_analyzer_api/core/world_service.py  get_load_locations        *)
(* A record field holding None stands for a key absent from the JSON.      *)
(***************************************************************************)
EXTENDS Integers, Sequences, FiniteSets, TLC

VARIABLES
  zone,       \* number of the zone whose stream is being read
  cmds,       \* cmds[z]: the commands of zone z read so far
  rr_ctx,     \* render_resets: current_mob, mob_block_active, last_room_obj, room_obj_block_active
  rr_lines,   \* render_resets: the lines emitted for the zone
  lut_mob,    \* edges_from_zone_cmds: current_mob
  lut_edges,  \* edges_from_zone_cmds: edges
  lut_zrows,  \* edges_from_zone_cmds: zrows
  pz_rows,    \* mud_lut.process_zone: the zone_commands rows of the zone
  ds_mob,     \* get_command_index: current_mobile
  ds_index,   \* get_command_index: the entries of _command_index, in insertion order
  gs_mob,     \* find_associations: current_mobile
  gs_assoc,   \* find_associations: the association entries, for every vnum
  ai_mob,     \* _build_zone_command_index: current_mobile
  ai_index,   \* _build_zone_command_index: the entries of _zone_command_index
  ws_mob,     \* WorldService.get_load_locations: current_mobile
  ws_locs,    \* WorldService.get_load_locations: the locations, for every vnum
  world,      \* the entity files: objects, mobiles (with repops), scripts
  qv,         \* the vnum queried, None before the query
  locations,  \* DataService.get_load_locations(qv)
  ws_locations, \* WorldService.get_load_locations(qv)
  part,       \* AssembledItemsExplorer.analyze_part_loadability(qv)
  accessible, \* DataService.is_entity_accessible of the entity of vnum qv
  recipe,     \* the recipe analysed, NoRecipe before the analysis
  analysis,   \* AssembledItemsExplorer.analyze_accessibility(recipe)
  api_analysis, \* AssemblyService._analyze_assembly_accessibility(recipe.parts)
  fs,         \* the world files: fs[path] is the file at that path, NoFile if there is none
  clock,      \* the number of file edits so far, the mtime of the next edit
  db,         \* the store of mud_lut_new: its six tables
  use_sha1,   \* the change-detection mode the store is built with
  builds,     \* the number of builds run
  last_build, \* the zones filter and full flag of the last build
  prev_db,    \* the store as it was before the last build
  changed,    \* the paths written or removed since the last build
  changed_before, \* the paths written or removed between the last two builds
  repeat,     \* the last build repeated the one before it on an unedited world
  covered,    \* the last build scanned, on an unedited world, only zones the one before it scanned
  zone_dirs,  \* the zone directories under the world root: zone_dirs[z] is NoDir or a directory
  hint_zone,  \* World.hint_zone, None when no hint is set
  zone_ranges, \* World._zone_ranges, sorted by start vnum
  zone_index_built, \* World._zone_index_built
  resolved,   \* the last direct call of World._zone_for_vnum: its vnum, the hint and the zone returned
  asm,        \* the assemble file handed to edges_from_assemble, NoAsm before the call
  asm_edges,  \* the edges edges_from_assemble returned
  ent_files,  \* the entity files <zone>/<kind>/<vnum>.json of the dataset
  w_cache,    \* World._cache: the (kind, vnum) keys loaded so far and their data
  detected,   \* the last call of World.detect_entity_type: its vnum and the kind returned
  loaded,     \* the last call of World.load: its key and the data returned
  got,        \* the last call of DataService.get_entity_by_vnum: its vnum and the entity returned
  ds_world,   \* the World of the DataService: its range index, its flag and its cache
  tasks,      \* the tasks get_entities submitted to its pool of workers
  ge,         \* the call of get_entities: its kind and the entities collected so far
  run         \* the build in progress: its position in the zone and file loops, its
              \* connection's view of the store and its row buffers

scanVars == <<zone, cmds, rr_ctx, rr_lines, lut_mob, lut_edges, lut_zrows, pz_rows,
              ds_mob, ds_index, gs_mob, gs_assoc, ai_mob, ai_index, ws_mob, ws_locs>>

queryVars == <<qv, locations, ws_locations, part, accessible, recipe, analysis, api_analysis>>

storeVars == <<fs, clock, db, use_sha1, builds, last_build, prev_db, changed, changed_before, repeat, covered>>

resolverVars == <<zone_dirs, hint_zone, zone_ranges, zone_index_built, resolved>>

asmVars == <<asm, asm_edges>>

loaderVars == <<ent_files, w_cache, detected, loaded, got>>

txVars == <<run>>

parVars == <<ds_world, tasks, ge>>

extVars == <<asmVars, loaderVars, txVars, parVars>>

vars == <<scanVars, world, queryVars, storeVars, resolverVars, extVars>>

\* ---------------------------------------------------------------- bounds
MaxCmds == 3
MaxZones == 2

\* ---------------------------------------------------------------- values
\* Python's None.
None == 0 - 1000

\* Python truthiness of an Optional[int].
Truthy(x) == x # None /\ x # 0

\* shared/error_handler.safe_int(value, default=0): int(value), default on None.
safe_int(v) == IF v = None THEN 0 ELSE v

\* mud_lut_new.safe_int(x): None stays None, an int is itself.
lut_safe_int(v) == v

\* dict.get(key, default)
Get(v, default) == IF v = None THEN default ELSE v

\* zone_summary: int(_cmd_get(c, k, default=d) or d)
IntOr(v, d) == IF Truthy(v) THEN v ELSE d

MobLoad == {"M", "W"}
ObjLoad == {"O", "X"}
Equip == {"E", "Z"}
Give == {"G", "Y"}
Put == {"P", "Q"}
OpCodes == MobLoad \cup ObjLoad \cup Equip \cup Give \cup Put \cup {"D", "R", "A", "?"}

\* The op-code of a command without a "cmd" key.
NoCmd == "<absent>"

Cmd(op, a1, a3, p) == [cmd |-> op, arg1 |-> a1, arg2 |-> 1, arg3 |-> a3, prob |-> p, flag |-> 0]

\* ---------------------------------------------------------------- render_resets
rr_init == [current_mob |-> None, mob_block_active |-> FALSE,
            last_room_obj |-> None, room_obj_block_active |-> FALSE]

rr_clear_mob(s) == [s EXCEPT !.mob_block_active = FALSE, !.current_mob = None]

\* Mutant of rr_clear_obj: the room-object context is kept.
rr_clear_obj_keep(s) == s

rr_clear_obj(s) == [s EXCEPT !.room_obj_block_active = FALSE, !.last_room_obj = None]

\* One iteration of the loop of render_resets: the context after it and the
\* line emitted; the flag of a line is the one its prefix prints as [IF flag].
render_resets_step(s, c) ==
  LET cmd == IF c.cmd = NoCmd THEN "?" ELSE c.cmd
      a1 == IntOr(c.arg1, 0)
      a2 == IntOr(c.arg2, 0)
      a3 == IntOr(c.arg3, 0)
      mobIndent == IF s.mob_block_active /\ s.current_mob # None THEN 4 ELSE 0
  IN
  IF cmd \in MobLoad THEN
    [ctx |-> [current_mob |-> a1, mob_block_active |-> TRUE,
              last_room_obj |-> None, room_obj_block_active |-> FALSE],
     line |-> [flag |-> IntOr(c.flag, 0), kind |-> "LoadMob", cmd |-> cmd, vnum |-> a1, target |-> a3, indent |-> 0]]
  ELSE IF cmd \in Equip THEN
    [ctx |-> s,
     line |-> [flag |-> IntOr(c.flag, 0), kind |-> "Equip", cmd |-> cmd, vnum |-> a1, target |-> s.current_mob, indent |-> mobIndent]]
  ELSE IF cmd \in Give THEN
    [ctx |-> s,
     line |-> [flag |-> IntOr(c.flag, 0), kind |-> "Give", cmd |-> cmd, vnum |-> a1, target |-> s.current_mob, indent |-> mobIndent]]
  ELSE IF cmd \in ObjLoad THEN
    [ctx |-> [rr_clear_mob(s) EXCEPT !.room_obj_block_active = TRUE, !.last_room_obj = a1],
     line |-> [flag |-> IntOr(c.flag, 0), kind |-> "LoadObj", cmd |-> cmd, vnum |-> a1, target |-> a3, indent |-> 0]]
  ELSE IF cmd \in Put THEN
    [ctx |-> rr_clear_mob(s),
     line |-> [flag |-> IntOr(c.flag, 0), kind |-> "Put", cmd |-> cmd, vnum |-> a1, target |-> a3,
               indent |-> IF s.room_obj_block_active /\ s.last_room_obj = a3 THEN 4 ELSE 0]]
  ELSE IF cmd = "R" THEN
    [ctx |-> rr_clear_obj(rr_clear_mob(s)),
     line |-> [flag |-> IntOr(c.flag, 0), kind |-> "Remove", cmd |-> cmd, vnum |-> a2, target |-> a1, indent |-> 0]]
  ELSE IF cmd = "D" THEN
    [ctx |-> rr_clear_obj(rr_clear_mob(s)),
     line |-> [flag |-> IntOr(c.flag, 0), kind |-> "Door", cmd |-> cmd, vnum |-> a1, target |-> a3, indent |-> 0]]
  ELSE IF cmd = "A" THEN
    [ctx |-> rr_clear_obj(rr_clear_mob(s)),
     line |-> [flag |-> IntOr(c.flag, 0), kind |-> "RandomExit", cmd |-> cmd, vnum |-> a1, target |-> a3, indent |-> 0]]
  ELSE
    [ctx |-> rr_clear_obj(rr_clear_mob(s)),
     line |-> [flag |-> IntOr(c.flag, 0), kind |-> "Unhandled", cmd |-> cmd, vnum |-> a1, target |-> a3, indent |-> 0]]

\* ---------------------------------------------------------------- edges_from_zone_cmds
Edge(sk, sv, dk, dv, rel, z, c) ==
  [src_kind |-> sk, src_vnum |-> sv, dst_kind |-> dk, dst_vnum |-> dv,
   relation |-> rel, zone |-> z, ctx |-> c]

\* The zone_cmd row of the command at index idx.
zone_cmd_row(z, idx, c) ==
  [zone |-> z, idx |-> idx, cmd |-> c.cmd, prob |-> lut_safe_int(c.prob),
   if_flag |-> lut_safe_int(c.flag), a1 |-> lut_safe_int(c.arg1),
   a2 |-> lut_safe_int(c.arg2), a3 |-> lut_safe_int(c.arg3), raw |-> c]

\* The rows appended for the command at index idx: none when the command has
\* no op-code string.
zone_cmd_rows_step(z, idx, c) ==
  IF c.cmd = NoCmd THEN <<>> ELSE <<zone_cmd_row(z, idx, c)>>

\* mud_lut.process_zone: the zone_commands row of the command numbered seq.
process_zone_row(z, seq, c) ==
  [zone |-> z, cmd |-> c.cmd, if_flag |-> c.flag, arg1 |-> c.arg1, arg2 |-> c.arg2,
   arg3 |-> c.arg3, prob |-> c.prob, raw |-> c, sequence |-> seq]

\* Mutant of edges_from_zone_cmds_step: a command with a conditional flag is
\* skipped, and only M is interpreted.
edges_from_zone_cmds_step_gated(mob, z, c) ==
  IF c.cmd = "M" /\ ~Truthy(c.flag)
  THEN [mob |-> lut_safe_int(c.arg1), edges |-> <<>>]
  ELSE [mob |-> mob, edges |-> <<>>]

\* One iteration of the loop of edges_from_zone_cmds: current_mob after it and the edges appended.
edges_from_zone_cmds_step(mob, z, c) ==
  LET a1 == lut_safe_int(c.arg1)
      a3 == lut_safe_int(c.arg3)
  IN
  IF c.cmd = NoCmd THEN [mob |-> mob, edges |-> <<>>]
  ELSE IF c.cmd = "M" /\ a1 # None /\ a3 # None THEN
    [mob |-> a1,
     edges |-> <<Edge("zone", z, "mobile", a1, "zone_cmd:M_load_mob", z, c),
                 Edge("mobile", a1, "room", a3, "spawns_in", z, c)>>]
  ELSE IF c.cmd = "O" /\ a1 # None /\ a3 # None THEN
    [mob |-> mob,
     edges |-> <<Edge("zone", z, "object", a1, "zone_cmd:O_load_obj", z, c),
                 Edge("object", a1, "room", a3, "loads_in", z, c)>>]
  ELSE IF c.cmd \in {"G", "E"} /\ a1 # None THEN
    [mob |-> mob,
     edges |-> IF mob # None
               THEN LET rel == IF c.cmd = "G" THEN "zone_cmd:G_give_obj" ELSE "zone_cmd:E_equip_obj"
                    IN <<Edge("mobile", mob, "object", a1, rel, z, c),
                         Edge("zone", z, "object", a1, rel, z, c)>>
               ELSE <<>>]
  ELSE IF c.cmd \in Put /\ a1 # None /\ a3 # None THEN
    [mob |-> mob,
     edges |-> <<Edge("object", a3, "object", a1,
                      IF c.cmd = "P" THEN "contains_on_reset:P" ELSE "contains_on_reset:Q", z, c),
                 Edge("zone", z, "object", a1,
                      IF c.cmd = "P" THEN "zone_cmd:P_put_obj" ELSE "zone_cmd:Q_put_obj", z, c)>>]
  ELSE IF c.cmd = "D" /\ a1 # None THEN
    [mob |-> mob, edges |-> <<Edge("zone", z, "room", a1, "zone_cmd:D_door", z, c)>>]
  ELSE IF c.cmd = "R" /\ a1 # None THEN
    [mob |-> mob, edges |-> <<Edge("zone", z, "room", a1, "zone_cmd:R_remove", z, c)>>]
  ELSE
    [mob |-> mob, edges |-> <<>>]

\* ---------------------------------------------------------------- get_command_index
IndexEntry(z, c, ctype, mob) ==
  [zone |-> z, cmd_type |-> ctype, arg1 |-> safe_int(Get(c.arg1, 0)),
   arg2 |-> safe_int(Get(c.arg2, 0)), arg3 |-> safe_int(Get(c.arg3, 0)),
   prob |-> safe_int(Get(c.prob, 100)), mobile_context |-> mob]

\* One iteration of the inner loop of get_command_index.
get_command_index_step(mob, z, c) ==
  LET arg1 == safe_int(Get(c.arg1, 0))
  IN
  IF c.cmd = "M" THEN [mob |-> arg1, entries |-> <<>>]
  ELSE IF c.cmd \in ObjLoad /\ arg1 > 0 THEN
    [mob |-> mob, entries |-> <<IndexEntry(z, c, c.cmd, None)>>]
  ELSE IF c.cmd \in (Equip \cup Give) /\ arg1 > 0 THEN
    [mob |-> mob, entries |-> <<IndexEntry(z, c, c.cmd, mob)>>]
  ELSE IF c.cmd \in Put /\ arg1 > 0 THEN
    [mob |-> mob, entries |-> <<IndexEntry(z, c, c.cmd, None)>>]
  ELSE [mob |-> mob, entries |-> <<>>]

\* ---------------------------------------------------------------- find_associations
Assoc(cat, z, v, mob, p) == [category |-> cat, zone |-> z, vnum |-> v, mob |-> mob, prob |-> p]

\* One iteration of the inner loop of find_associations; an entry's vnum is the
\* vnum whose query receives it.
find_associations_step(mob, z, c) ==
  LET arg1 == Get(c.arg1, 0)
      arg3 == Get(c.arg3, 0)
      prob == Get(c.prob, 100)
      cur == IF c.cmd \in MobLoad THEN arg1 ELSE mob
      out == IF c.cmd \in ObjLoad THEN <<Assoc("Loads in rooms", z, arg1, None, prob)>>
             ELSE IF c.cmd \in (Equip \cup Give) THEN
               <<Assoc("Carried by mobiles", z, arg1, IF Truthy(cur) THEN cur ELSE None, prob)>>
             ELSE IF c.cmd \in Put THEN
               <<Assoc("Found in containers", z, arg1, None, prob)>>
               \o (IF arg3 # arg1 THEN <<Assoc("Contains objects", z, arg3, None, prob)>> ELSE <<>>)
             ELSE <<>>
  IN [mob |-> IF c.cmd \in (MobLoad \cup Equip \cup Give) THEN cur ELSE None, entries |-> out]

\* ---------------------------------------------------------------- _build_zone_command_index
build_zone_command_index_step(mob, z, c) ==
  LET arg1 == safe_int(Get(c.arg1, 0))
      arg3 == safe_int(Get(c.arg3, 0))
      cur == IF c.cmd = "M" THEN arg1 ELSE mob
  IN [mob |-> cur,
      entries |->
        (IF c.cmd \in (ObjLoad \cup Equip \cup Give \cup Put) /\ arg1 > 0
         THEN <<[IndexEntry(z, c, c.cmd, IF c.cmd \in (Equip \cup Give) THEN cur ELSE None)
                 EXCEPT !.arg1 = arg1] @@ [key |-> arg1]>>
         ELSE <<>>)
        \o
        (IF c.cmd \in Put /\ arg3 > 0
         THEN <<IndexEntry(z, c, "CONTAINS", None) @@ [key |-> arg3]>>
         ELSE <<>>)]

\* ---------------------------------------------------------------- WorldService.get_load_locations
\* One iteration of the inner loop; an entry's vnum is the vnum whose query receives it.
ws_get_load_locations_step(mob, z, c) ==
  LET arg1 == Get(c.arg1, 0)
      arg3 == Get(c.arg3, 0)
      prob == Get(c.prob, 100)
  IN
  IF c.cmd = "M" THEN [mob |-> arg1, entries |-> <<>>]
  ELSE IF c.cmd \in ObjLoad THEN
    [mob |-> mob,
     entries |-> <<[vnum |-> arg1, type |-> "room", zone |-> z, location |-> <<"Room", arg3>>,
                    probability |-> prob]>>]
  ELSE IF c.cmd \in (Equip \cup Give) THEN
    [mob |-> mob,
     entries |-> <<[vnum |-> arg1, type |-> "mobile_equipment", zone |-> z,
                    location |-> <<"Mobile", IF Truthy(mob) THEN mob ELSE arg3>>,
                    probability |-> prob]>>]
  ELSE [mob |-> mob, entries |-> <<>>]

\* ---------------------------------------------------------------- World briefs
\* The vnums of the mobile files of world w.
MobileVnums(w) == {w.mobiles[i].vnum : i \in 1..Len(w.mobiles)}

ScriptVnums(w) == {w.scripts[i].vnum : i \in 1..Len(w.scripts)}

\* World.detect_entity_type: the first kind, in the order object, mobile,
\* script, that has a file for the vnum.
detect_entity_type(w, v) ==
  IF v \in w.objects THEN "object"
  ELSE IF v \in MobileVnums(w) THEN "mobile"
  ELSE IF v \in ScriptVnums(w) THEN "script"
  ELSE "none"

\* The brief strings, "[vnum] name": a pair of the entity found and the vnum.
room_brief(w, v) == <<"room", v>>

mob_brief(w, v) == IF v \in MobileVnums(w) THEN <<"mobile", v>> ELSE <<"mob missing", v>>

obj_brief(w, v) == IF v \in w.objects THEN <<"object", v>> ELSE <<"object missing", v>>

get_entity_brief(w, v) ==
  LET t == detect_entity_type(w, v)
  IN IF t = "none" THEN <<"unknown entity type", v>> ELSE <<t, v>>

\* ---------------------------------------------------------------- DataService.get_load_locations
Location(t, z, loc, p) == [type |-> t, zone |-> z, location |-> loc, probability |-> p]

\* Mutant of ds_location: the mobile is always taken from arg3.
ds_location_arg3(w, e) ==
  IF e.cmd_type \in ObjLoad THEN Location("room", e.zone, room_brief(w, e.arg3), e.prob)
  ELSE IF e.cmd_type \in Equip
    THEN Location("mobile_equipment", e.zone, get_entity_brief(w, e.arg3), e.prob)
  ELSE IF e.cmd_type \in Give
    THEN Location("mobile_inventory", e.zone, get_entity_brief(w, e.arg3), e.prob)
  ELSE Location("container", e.zone, get_entity_brief(w, e.arg3), e.prob)

\* The location built from one entry of the command index.
ds_location(w, e) ==
  LET mobile_vnum == IF Truthy(e.mobile_context) THEN e.mobile_context ELSE e.arg3
  IN
  IF e.cmd_type \in ObjLoad THEN Location("room", e.zone, room_brief(w, e.arg3), e.prob)
  ELSE IF e.cmd_type \in Equip
    THEN Location("mobile_equipment", e.zone, get_entity_brief(w, mobile_vnum), e.prob)
  ELSE IF e.cmd_type \in Give
    THEN Location("mobile_inventory", e.zone, get_entity_brief(w, mobile_vnum), e.prob)
  ELSE Location("container", e.zone, get_entity_brief(w, e.arg3), e.prob)

RECURSIVE MapLocations(_, _)
MapLocations(w, entries) ==
  IF entries = <<>> THEN <<>>
  ELSE <<ds_location(w, Head(entries))>> \o MapLocations(w, Tail(entries))

\* The locations of the repop entries of one mobile that name vnum v.
RECURSIVE RepopLocations(_, _, _, _)
RepopLocations(w, m, repops, v) ==
  IF repops = <<>> THEN <<>>
  ELSE (IF safe_int(Get(Head(repops).vnum, 0)) = v
        THEN <<Location("mobile_equipment", m.zone, mob_brief(w, m.vnum),
                        safe_int(Get(Head(repops).percent, 100)))>>
        ELSE <<>>)
       \o RepopLocations(w, m, Tail(repops), v)

RECURSIVE AllRepopLocations(_, _, _)
AllRepopLocations(w, mobs, v) ==
  IF mobs = <<>> THEN <<>>
  ELSE RepopLocations(w, Head(mobs), Head(mobs).repops, v) \o AllRepopLocations(w, Tail(mobs), v)

\* DataService.get_load_locations(vnum) over command index idx.
get_load_locations(w, idx, v) ==
  MapLocations(w, SelectSeq(idx, LAMBDA e : e.arg1 = v))
  \o (IF detect_entity_type(w, v) = "object" THEN AllRepopLocations(w, w.mobiles, v) ELSE <<>>)

\* WorldService.get_load_locations(vnum): the entries whose arg1 is the vnum.
RECURSIVE WsStrip(_)
WsStrip(es) ==
  IF es = <<>> THEN <<>>
  ELSE <<Location(Head(es).type, Head(es).zone, Head(es).location, Head(es).probability)>>
       \o WsStrip(Tail(es))

ws_get_load_locations(locs, v) == WsStrip(SelectSeq(locs, LAMBDA e : e.vnum = v))

\* ---------------------------------------------------------------- analyze_part_loadability
\* list.sort(key=lambda x: x[0], reverse=True): stable, highest rate first.
RECURSIVE InsertDesc(_, _)
InsertDesc(x, sorted) ==
  IF sorted = <<>> THEN <<x>>
  ELSE IF Head(sorted).rate >= x.rate THEN <<Head(sorted)>> \o InsertDesc(x, Tail(sorted))
  ELSE <<x>> \o sorted

RECURSIVE SortDesc(_)
SortDesc(xs) ==
  IF xs = <<>> THEN <<>>
  ELSE InsertDesc(xs[Len(xs)], SortDesc(SubSeq(xs, 1, Len(xs) - 1)))

Rated(p, z, what, how) == [rate |-> p, zone |-> z, what |-> what, how |-> how]

\* The (rate, location) pair analyze_part_loadability builds from one index entry, if any.
part_location(w, e) ==
  IF e.cmd_type \in ObjLoad THEN <<Rated(e.prob, e.zone, room_brief(w, e.arg3), "room")>>
  ELSE IF e.cmd_type \in Equip /\ Truthy(e.mobile_context)
    THEN <<Rated(e.prob, e.zone, mob_brief(w, e.mobile_context), "equipped")>>
  ELSE IF e.cmd_type \in Give /\ Truthy(e.mobile_context)
    THEN <<Rated(e.prob, e.zone, mob_brief(w, e.mobile_context), "inventory")>>
  ELSE IF e.cmd_type \in Put THEN <<Rated(e.prob, e.zone, obj_brief(w, e.arg3), "in")>>
  ELSE IF e.cmd_type = "CONTAINS" THEN <<Rated(e.prob, e.zone, obj_brief(w, e.arg1), "contains")>>
  ELSE <<>>

RECURSIVE PartLocations(_, _)
PartLocations(w, entries) ==
  IF entries = <<>> THEN <<>>
  ELSE part_location(w, Head(entries)) \o PartLocations(w, Tail(entries))

\* _analyze_script_creation_probability(code, vnum) for a script whose code
\* holds a creation pattern for the vnums of sc.creates, the decimal string of
\* the vnums of sc.mentions, and "if" or "random" when sc.conditional.
analyze_script_creation_probability(sc, v) ==
  IF v \in sc.creates THEN (IF sc.conditional THEN 75 ELSE 100)
  ELSE IF v \in sc.mentions THEN 25
  ELSE 0

\* _find_script_references(vnum)
RECURSIVE find_script_references(_, _)
find_script_references(scripts, v) ==
  IF scripts = <<>> THEN <<>>
  ELSE LET sc == Head(scripts)
           prob == analyze_script_creation_probability(sc, v)
       IN (IF v \in sc.mentions /\ prob > 0
           THEN <<Rated(prob, sc.zone, <<"script", sc.vnum>>, "creates item")>>
           ELSE <<>>)
          \o find_script_references(Tail(scripts), v)

\* analyze_part_loadability(vnum) over the zone command index idx.
analyze_part_loadability(w, idx, v) ==
  LET locations_with_rates ==
        PartLocations(w, SelectSeq(idx, LAMBDA e : e.key = v))
        \o find_script_references(w.scripts, v)
      sorted == SortDesc(locations_with_rates)
  IN IF locations_with_rates # <<>>
     THEN [loadable |-> TRUE, best_rate |-> sorted[1].rate, locations |-> sorted]
     ELSE [loadable |-> FALSE, best_rate |-> 0, locations |-> <<>>]

\* Mutant of best_prob: the probability of the first location.
best_prob_first(locs) == locs[1].probability

\* max(loc['probability'] for loc in locations), as the callers of
\* get_load_locations compute the best rate.
RECURSIVE best_prob(_)
best_prob(locs) ==
  IF Len(locs) = 1 THEN locs[1].probability
  ELSE LET rest == best_prob(Tail(locs))
       IN IF rest > Head(locs).probability THEN rest ELSE Head(locs).probability

\* ---------------------------------------------------------------- DataService.is_entity_accessible
\* A mobile is accessible when some zone stream holds an M command for it.
mobile_accessible(streams, v) ==
  \E z \in 1..Len(streams) : \E i \in 1..Len(streams[z]) :
    streams[z][i].cmd = "M" /\ safe_int(Get(streams[z][i].arg1, 0)) = v

\* _is_script_created_object(vnum): some accessible mobile has a special
\* procedure, or some script text holds the vnum and obj_to_char/obj_to_room.
is_script_created_object(w, streams, v) ==
  \/ \E i \in 1..Len(w.mobiles) :
       w.mobiles[i].spec_proc /\ mobile_accessible(streams, w.mobiles[i].vnum)
  \/ \E i \in 1..Len(w.scripts) :
       v \in w.scripts[i].script_mentions /\ w.scripts[i].script_obj_to

\* is_entity_accessible(entity) for an entity of kind t and vnum v.
is_entity_accessible(w, idx, streams, t, v) ==
  IF t = "object" THEN
    LET locs == get_load_locations(w, idx, v)
    IN \/ \E k \in 1..Len(locs) :
            /\ locs[k].probability > 0
            /\ locs[k].type \in {"mobile_equipment", "mobile_inventory", "room", "container"}
       \/ is_script_created_object(w, streams, v)
  ELSE IF t = "mobile" THEN mobile_accessible(streams, v)
  ELSE TRUE

\* get_entity_by_vnum(vnum) followed by is_entity_accessible, as the
\* assembled-items explorer asks whether a part is accessible.
part_accessible(w, idx, streams, v) ==
  LET t == detect_entity_type(w, v)
  IN t # "none" /\ is_entity_accessible(w, idx, streams, t, v)

\* ---------------------------------------------------------------- recipe analysis
MaxParts == 2

\* Rates are kept exact: a rate of r percent is the integer r * Scale, and a
\* product with best/100 divides first, which loses nothing for MaxParts parts.
Scale == 100 ^ MaxParts

\* Mutant of analyze_parts: the rate of the first part alone.
analyze_parts_first(w, idx, parts, acc) ==
  IF parts = <<>> THEN acc
  ELSE LET part_analysis == analyze_part_loadability(w, idx, Head(parts))
       IN IF ~part_analysis.loadable
            THEN [acc EXCEPT !.all_parts_loadable = FALSE, !.overall_rate = 0]
          ELSE [acc EXCEPT !.overall_rate = (@ \div 100) * part_analysis.best_rate]

\* The loop of analyze_accessibility over the parts left.
RECURSIVE analyze_parts(_, _, _, _)
analyze_parts(w, idx, parts, acc) ==
  IF parts = <<>> THEN acc
  ELSE LET part_analysis == analyze_part_loadability(w, idx, Head(parts))
           nxt == IF ~part_analysis.loadable
                    THEN [acc EXCEPT !.all_parts_loadable = FALSE, !.overall_rate = 0]
                  ELSE IF part_analysis.best_rate < 100
                    THEN [acc EXCEPT !.overall_rate = (@ \div 100) * part_analysis.best_rate]
                  ELSE acc
       IN analyze_parts(w, idx, Tail(parts), nxt)

\* AssembledItemsExplorer.analyze_accessibility(recipe); nz is the number of zone directories.
analyze_accessibility(w, idx, nz, r) ==
  analyze_parts(w, idx, r.parts,
                [zone_accessible |-> r.zone \in 1..nz, all_parts_loadable |-> TRUE,
                 overall_rate |-> 100 * Scale])

\* The loop of _analyze_assembly_accessibility over the parts left.
RECURSIVE api_parts(_, _, _)
api_parts(locs, parts, overall_rate) ==
  IF parts = <<>> THEN [accessible |-> TRUE, success_rate |-> overall_rate * 100]
  ELSE LET l == ws_get_load_locations(locs, Head(parts))
       IN IF l = <<>> THEN [accessible |-> FALSE, success_rate |-> 0]
          ELSE api_parts(locs, Tail(parts), (overall_rate \div 100) * best_prob(l))

\* AssemblyService._analyze_assembly_accessibility(parts)
analyze_assembly_accessibility(locs, parts) ==
  IF parts = <<>> THEN [accessible |-> FALSE, success_rate |-> 0]
  ELSE api_parts(locs, parts, Scale)

\* edges_from_zone_cmds over the whole stream s of zone z.
RECURSIVE lut_run(_, _, _, _, _, _)
lut_run(s, z, idx, mob, edges, zrows) ==
  IF s = <<>> THEN [mob |-> mob, edges |-> edges, zrows |-> zrows]
  ELSE LET r == edges_from_zone_cmds_step(mob, z, Head(s))
       IN lut_run(Tail(s), z, idx + 1, r.mob, edges \o r.edges,
                  zrows \o zone_cmd_rows_step(z, idx, Head(s)))

\* ---------------------------------------------------------------- the world files of the index build
\* The zone file of zone directory 1 and one script file in each of the zone
\* directories 1 and 2, in the order iter_zone_dirs and iter_zone_files yield them.
ZoneFile == "1/1.json"

ScriptA == "1/script/a.json"

ScriptB == "2/script/5.json"

Paths == <<ZoneFile, ScriptA, ScriptB>>

PathSet == {Paths[i] : i \in 1..Len(Paths)}

\* The kind iter_zone_files yields for a path, its zone directory, and
\* safe_int of the stem of its file name.
PathKind(p) == IF p = ZoneFile THEN "zone" ELSE "script"

PathZone(p) == IF p = ScriptB THEN 2 ELSE 1

PathStem(p) == IF p = ZoneFile THEN 1 ELSE IF p = ScriptB THEN 5 ELSE None

\* File contents.  A body that is not ok does not load as JSON; sha1 names
\* the bytes and size is their length.
ZoneBody(h, cs) == [ok |-> TRUE, vnum |-> None, mob |-> None, cmds |-> cs, sha1 |-> h, size |-> 10 + Len(cs)]

ScriptBody(h, v, m) ==
  [ok |-> TRUE, vnum |-> v, mob |-> m, cmds |-> <<>>, sha1 |-> h, size |-> IF v = None THEN 10 ELSE 21]

BadBody == [ok |-> FALSE, vnum |-> None, mob |-> None, cmds |-> <<>>, sha1 |-> 9, size |-> 1]

ZoneBodies ==
  {ZoneBody(1, <<Cmd("M", 2, 4, 100)>>),
   ZoneBody(2, <<Cmd("M", 2, 4, 100), Cmd("E", 1, 3, 50)>>)}

\* Scripts with vnum 5 that mention mobile 7 or 8, and one without a vnum.
ScriptBodies == {ScriptBody(3, 5, 7), ScriptBody(4, 5, 8), ScriptBody(5, None, 7)}

BodiesOf(p) == (IF p = ZoneFile THEN ZoneBodies ELSE ScriptBodies) \cup {BadBody}

NoFile == [exists |-> FALSE, body |-> BadBody, mtime |-> 0]

File(b, t) == [exists |-> TRUE, body |-> b, mtime |-> t]

\* ---------------------------------------------------------------- the store of mud_lut_new
NoState == [known |-> FALSE, mtime |-> 0, size |-> 0, sha1 |-> 0]

EmptyDb ==
  [file_state |-> [p \in PathSet |-> NoState], entity |-> {}, edge |-> <<>>, zone_cmd |-> {},
   ref |-> <<>>, parse_error |-> <<>>]

NoRows == [entity_rows |-> <<>>, edge_rows |-> <<>>, zone_cmd_rows |-> <<>>, ref_rows |-> <<>>,
           err_rows |-> <<>>]

\* load_json_file: the hash is "-" (here 0) unless sha1 mode is on.
FileHash(b, sha1_mode) == IF sha1_mode THEN b.sha1 ELSE 0

needs_update(d, p, mtime, size, h) ==
  LET row == d.file_state[p]
  IN ~row.known \/ ~(row.mtime = mtime /\ row.size = size /\ row.sha1 = h)

upsert_file_state(d, p, mtime, size, h) ==
  [d EXCEPT !.file_state[p] = [known |-> TRUE, mtime |-> mtime, size |-> size, sha1 |-> h]]

\* Mutant of delete_by_source: nothing is deleted.
delete_by_source_nothing(d, p) == d

delete_by_source(d, p) ==
  [d EXCEPT !.edge = SelectSeq(@, LAMBDA r : r.source_path # p),
            !.zone_cmd = {r \in @ : r.source_path # p},
            !.ref = SelectSeq(@, LAMBDA r : r.source_path # p),
            !.parse_error = SelectSeq(@, LAMBDA r : r.source_path # p)]

delete_missing_files(d, existing_relpaths) ==
  LET missing == {p \in PathSet : d.file_state[p].known /\ p \notin existing_relpaths}
  IN [file_state |-> [p \in PathSet |-> IF p \in missing THEN NoState ELSE d.file_state[p]],
      entity |-> {r \in d.entity : r.path \notin missing},
      edge |-> SelectSeq(d.edge, LAMBDA r : r.source_path \notin missing),
      zone_cmd |-> {r \in d.zone_cmd : r.source_path \notin missing},
      ref |-> SelectSeq(d.ref, LAMBDA r : r.source_path \notin missing),
      parse_error |-> SelectSeq(d.parse_error, LAMBDA r : r.source_path \notin missing)]

\* parse_entity: the vnum is the first truthy of data.vnum, data.id (never
\* present here) and the stem; the entity is None (vnum None) without one.
parse_entity_vnum(p, b) ==
  IF Truthy(lut_safe_int(b.vnum)) THEN b.vnum ELSE lut_safe_int(PathStem(p))

\* The entity row of file p with body b, with store_raw_json on.
entity_row(p, b) ==
  [etype |-> PathKind(p), vnum |-> parse_entity_vnum(p, b), zone |-> PathZone(p), path |-> p,
   raw_json |-> b]

\* Mutant of upsert_entity: a plain INSERT.
insert_entity(rows, r) == rows \cup {r}

\* INSERT ... ON CONFLICT(etype, vnum) DO UPDATE
upsert_entity(rows, r) ==
  {x \in rows : ~(x.etype = r.etype /\ x.vnum = r.vnum)} \cup {r}

\* INSERT ... ON CONFLICT(zone, idx) DO UPDATE
upsert_zone_cmd(rows, r) ==
  {x \in rows : ~(x.zone = r.zone /\ x.idx = r.idx)} \cup {r}

RECURSIVE upsert_entities(_, _)
upsert_entities(rows, new) ==
  IF new = <<>> THEN rows ELSE upsert_entities(upsert_entity(rows, Head(new)), Tail(new))

RECURSIVE upsert_zone_cmds(_, _)
upsert_zone_cmds(rows, new) ==
  IF new = <<>> THEN rows ELSE upsert_zone_cmds(upsert_zone_cmd(rows, Head(new)), Tail(new))

\* flush: the buffered rows are written to the tables.
flush(d, buf) ==
  [d EXCEPT !.entity = upsert_entities(@, buf.entity_rows),
            !.edge = @ \o buf.edge_rows,
            !.zone_cmd = upsert_zone_cmds(@, buf.zone_cmd_rows),
            !.ref = @ \o buf.ref_rows,
            !.parse_error = @ \o buf.err_rows]

\* guess_etype_from_key for the keys of a script body.
guess_etype_from_key(key) == IF key = "mob" THEN "mobile" ELSE "any"

\* walk_keyed_ints over a script body: its int-valued keys, in file order.
walk_keyed_ints(b) ==
  (IF b.vnum # None THEN <<[keypath |-> "vnum", key |-> "vnum", iv |-> b.vnum]>> ELSE <<>>)
  \o (IF b.mob # None THEN <<[keypath |-> "mob", key |-> "mob", iv |-> b.mob]>> ELSE <<>>)

WithSource(p, rows) == [i \in 1..Len(rows) |-> [source_path |-> p] @@ rows[i]]

\* The rows build buffers for file p with body b once its entity is parsed
\* (deep_refs_mode "script"): the entity row, the structured edges and
\* zone_cmd rows of a zone file, the deep refs and ref edges of a script.
file_rows(p, b) ==
  LET vnum == parse_entity_vnum(p, b)
      z == lut_run(b.cmds, vnum, 0, None, <<>>, <<>>)
      w == walk_keyed_ints(b)
      specific == SelectSeq(w, LAMBDA k : guess_etype_from_key(k.key) \in {"room", "object", "mobile", "script", "zone"})
  IN [entity_rows |-> <<entity_row(p, b)>>,
      edge_rows |->
        IF PathKind(p) = "zone" THEN WithSource(p, z.edges)
        ELSE [i \in 1..Len(specific) |->
                [source_path |-> p]
                @@ Edge("script", vnum, guess_etype_from_key(specific[i].key), specific[i].iv,
                        "ref:" \o specific[i].key, PathZone(p), [keypath |-> specific[i].keypath])],
      zone_cmd_rows |-> IF PathKind(p) = "zone" THEN WithSource(p, z.zrows) ELSE <<>>,
      ref_rows |->
        IF PathKind(p) = "script"
        THEN [i \in 1..Len(w) |->
                [source_path |-> p, src_etype |-> "script", src_vnum |-> vnum,
                 keypath |-> w[i].keypath, guess_etype |-> guess_etype_from_key(w[i].key),
                 dst_vnum |-> w[i].iv]]
        ELSE <<>>,
      err_rows |-> <<>>]

AddRows(buf, r) ==
  [entity_rows |-> buf.entity_rows \o r.entity_rows, edge_rows |-> buf.edge_rows \o r.edge_rows,
   zone_cmd_rows |-> buf.zone_cmd_rows \o r.zone_cmd_rows, ref_rows |-> buf.ref_rows \o r.ref_rows,
   err_rows |-> buf.err_rows \o r.err_rows]

\* Mutant of build_file: no change detection and no delete before insert,
\* every file that parses has its rows buffered again.
build_file_append(st, p, f, full, sha1_mode) ==
  IF f.body.ok /\ parse_entity_vnum(p, f.body) # None
  THEN [st EXCEPT !.buf = AddRows(@, file_rows(p, f.body))]
  ELSE st

\* One iteration of the file loop of build, for the file f at path p; st holds
\* the store and the buffers.
build_file(st, p, f, full, sha1_mode) ==
  LET prev == st.db.file_state[p]
      size == f.body.size
      h == FileHash(f.body, sha1_mode)
  IN
  IF prev.known /\ ~sha1_mode /\ prev.mtime = f.mtime /\ prev.size = size THEN st
  ELSE IF ~f.body.ok THEN
    [st EXCEPT !.buf.err_rows =
       Append(@, [source_path |-> p, zone |-> PathZone(p), etype |-> PathKind(p),
                  message |-> "JSON load failed"])]
  ELSE IF ~needs_update(st.db, p, f.mtime, size, h) THEN st
  ELSE
    LET d1 == IF full THEN st.db ELSE delete_by_source(st.db, p)
        b1 == IF parse_entity_vnum(p, f.body) # None
              THEN AddRows(st.buf, file_rows(p, f.body)) ELSE st.buf
    IN [db |-> upsert_file_state(d1, p, f.mtime, size, h), buf |-> b1]

\* The files iter_zone_files yields for zone directory z, in order.
ZoneFiles(files, z) == SelectSeq(Paths, LAMBDA p : PathZone(p) = z /\ files[p].exists)

RECURSIVE build_files(_, _, _, _, _)
build_files(st, files, ps, full, sha1_mode) ==
  IF ps = <<>> THEN st
  ELSE build_files(build_file(st, Head(ps), files[Head(ps)], full, sha1_mode), files, Tail(ps),
                   full, sha1_mode)

\* The zone directories of the world, and those a zones filter keeps.
ZoneDirs == <<1, 2>>

iter_zone_dirs(zones) == SelectSeq(ZoneDirs, LAMBDA z : zones = {} \/ z \in zones)

\* The zone loop of build: the files of each zone, then flush and clear.
RECURSIVE build_zones(_, _, _, _, _)
build_zones(d, files, zs, full, sha1_mode) ==
  IF zs = <<>> THEN d
  ELSE LET st == build_files([db |-> d, buf |-> NoRows], files, ZoneFiles(files, Head(zs)), full,
                             sha1_mode)
       IN build_zones(flush(st.db, st.buf), files, Tail(zs), full, sha1_mode)

\* build(world_root, db, zones, full, use_sha1); the empty set stands for
\* zones = None, all zones.
build(d, files, zones, full, sha1_mode) ==
  LET zs == iter_zone_dirs(zones)
      d1 == build_zones(IF full THEN EmptyDb ELSE d, files, zs, full, sha1_mode)
      existing_relpaths == {p \in PathSet : files[p].exists /\ \E i \in 1..Len(zs) : zs[i] = PathZone(p)}
  IN IF zones = {} THEN delete_missing_files(d1, existing_relpaths) ELSE d1

\* ---------------------------------------------------------------- the builds
MaxEdits == 2
MaxBuilds == 3

\* The world at the start: a zone file, script 5 in zone 1, and in zone 2 a
\* script without a vnum field whose file name gives vnum 5 as well.
InitFiles ==
  [p \in PathSet |->
     IF p = ZoneFile THEN File(ZoneBody(1, <<Cmd("M", 2, 4, 100)>>), 0)
     ELSE IF p = ScriptA THEN File(ScriptBody(3, 5, 7), 0)
     ELSE File(ScriptBody(5, None, 7), 0)]

NoBuild == [zones |-> {}, full |-> FALSE]

StoreStart ==
  /\ fs = InitFiles
  /\ clock = 0
  /\ db = EmptyDb
  /\ builds = 0
  /\ last_build = NoBuild
  /\ prev_db = EmptyDb
  /\ changed = {}
  /\ changed_before = {}
  /\ repeat = FALSE
  /\ covered = FALSE

\* The zone directories a build with the given zones filter scans.
ScannedZones(zones) == {iter_zone_dirs(zones)[i] : i \in 1..Len(iter_zone_dirs(zones))}

\* The file at path p is written with body b.
WriteFile(p, b) ==
  /\ clock < MaxEdits
  /\ clock' = clock + 1
  /\ fs' = [fs EXCEPT ![p] = File(b, clock + 1)]
  /\ changed' = changed \cup {p}
  /\ UNCHANGED <<db, use_sha1, builds, last_build, prev_db, changed_before, repeat, covered>>
  /\ UNCHANGED <<scanVars, world, queryVars, resolverVars, extVars>>

\* The file at path p is removed.
RemoveFile(p) ==
  /\ clock < MaxEdits
  /\ fs[p].exists
  /\ clock' = clock + 1
  /\ fs' = [fs EXCEPT ![p] = NoFile]
  /\ changed' = changed \cup {p}
  /\ UNCHANGED <<db, use_sha1, builds, last_build, prev_db, changed_before, repeat, covered>>
  /\ UNCHANGED <<scanVars, world, queryVars, resolverVars, extVars>>

\* One run of build with the given zones filter ({} for all zones) and full flag.
Build(zones, full) ==
  /\ builds < MaxBuilds
  /\ builds' = builds + 1
  /\ db' = build(db, fs, zones, full, use_sha1)
  /\ prev_db' = db
  /\ last_build' = [zones |-> zones, full |-> full]
  /\ repeat' = (builds > 0 /\ changed = {} /\ last_build = [zones |-> zones, full |-> full])
  /\ covered' = (builds > 0 /\ changed = {} /\ ScannedZones(zones) \subseteq ScannedZones(last_build.zones))
  /\ changed_before' = changed
  /\ changed' = {}
  /\ UNCHANGED <<fs, clock, use_sha1>>
  /\ UNCHANGED <<scanVars, world, queryVars, resolverVars, extVars>>

\* ---------------------------------------------------------------- the commit points of build
\* The number of buffered rows at which build flushes and commits in the
\* middle of a zone (10000 in the source, scaled to the worlds modelled).
FlushRows == 4

BufLen(buf) ==
  Len(buf.entity_rows) + Len(buf.edge_rows) + Len(buf.zone_cmd_rows) + Len(buf.ref_rows)
  + Len(buf.err_rows)

\* No build is running; outcome tells how the last one ended.
NoRun(outcome) ==
  [active |-> FALSE, outcome |-> outcome, full |-> FALSE, zs |-> <<>>, ps |-> <<>>,
   st |-> [db |-> EmptyDb, buf |-> NoRows], start |-> EmptyDb]
\* start is the store the build, or the interrupted builds it resumes, began with.

TxStart == run = NoRun("none")

\* An incremental build that follows an interrupted incremental build on an
\* unedited world: it resumes the work of that build.
Resumes(full) == run.outcome = "interrupted" /\ ~run.full /\ ~full /\ changed = {}

\* build starts: the connection is opened, and on a full build the tables
\* are emptied and the deletion committed.
BuildBegin(full) ==
  /\ ~run.active
  /\ builds < MaxBuilds
  /\ builds' = builds + 1
  /\ LET d == IF full THEN EmptyDb ELSE db
         zs == iter_zone_dirs({})
     IN /\ db' = d
        /\ run' = [active |-> TRUE, outcome |-> "none", full |-> full, zs |-> zs,
                   ps |-> ZoneFiles(fs, Head(zs)), st |-> [db |-> d, buf |-> NoRows],
                   start |-> IF Resumes(full) THEN run.start ELSE db]
  /\ changed_before' = changed
  /\ changed' = {}
  /\ UNCHANGED <<fs, clock, use_sha1, last_build, prev_db, repeat, covered>>
  /\ UNCHANGED <<scanVars, world, queryVars, resolverVars, asmVars, loaderVars, parVars>>

\* One iteration of the file loop, with the periodic flush and commit that
\* ends the iteration of a file whose rows were buffered.
BuildFile ==
  /\ run.active
  /\ run.ps # <<>>
  /\ LET p == Head(run.ps)
         st1 == build_file(run.st, p, fs[p], run.full, use_sha1)
         written == st1.db.file_state[p] # run.st.db.file_state[p]
         commit == written /\ BufLen(st1.buf) >= FlushRows
         st2 == IF commit THEN [db |-> flush(st1.db, st1.buf), buf |-> NoRows] ELSE st1
     IN /\ run' = [run EXCEPT !.ps = Tail(run.ps), !.st = st2]
        /\ db' = IF commit THEN st2.db ELSE db
  /\ UNCHANGED <<fs, clock, use_sha1, builds, last_build, prev_db, changed, changed_before, repeat, covered>>
  /\ UNCHANGED <<scanVars, world, queryVars, resolverVars, asmVars, loaderVars, parVars>>

\* The end of a zone: flush and commit, and the next zone directory.
BuildEndZone ==
  /\ run.active
  /\ run.ps = <<>>
  /\ run.zs # <<>>
  /\ LET d == flush(run.st.db, run.st.buf)
         zs == Tail(run.zs)
     IN /\ db' = d
        /\ run' = [run EXCEPT !.zs = zs, !.ps = IF zs = <<>> THEN <<>> ELSE ZoneFiles(fs, Head(zs)),
                              !.st = [db |-> d, buf |-> NoRows]]
  /\ UNCHANGED <<fs, clock, use_sha1, builds, last_build, prev_db, changed, changed_before, repeat, covered>>
  /\ UNCHANGED <<scanVars, world, queryVars, resolverVars, asmVars, loaderVars, parVars>>

\* After the last zone: the rows of vanished files are deleted, and the
\* last commit closes the build.
BuildFinish ==
  /\ run.active
  /\ run.zs = <<>>
  /\ db' = delete_missing_files(run.st.db, {p \in PathSet : fs[p].exists})
  /\ run' = [NoRun("finished") EXCEPT !.start = run.start, !.full = run.full]
  /\ UNCHANGED <<fs, clock, use_sha1, builds, last_build, prev_db, changed, changed_before, repeat, covered>>
  /\ UNCHANGED <<scanVars, world, queryVars, resolverVars, asmVars, loaderVars, parVars>>

\* The build is interrupted: the connection goes away with its open
\* transaction, the store keeps what was committed.
BuildInterrupt ==
  /\ run.active
  /\ run' = [NoRun("interrupted") EXCEPT !.start = run.start, !.full = run.full]
  /\ UNCHANGED storeVars
  /\ UNCHANGED <<scanVars, world, queryVars, resolverVars, asmVars, loaderVars, parVars>>

\* ---------------------------------------------------------------- World._zone_for_vnum
\* The zone numbers a directory may carry and the vnums looked up.
ZoneNums == <<10, 12, 13>>
ZoneNumSet == {ZoneNums[i] : i \in 1..Len(ZoneNums)}
Vnums == {1050, 1250, 1310}

\* A zone directory with its zone file <zone>/<zone>.json; top is None when
\* the file is missing or carries no integer top.  The file's zone field is
\* the directory number.
NoDir == [is_dir |-> FALSE, top |-> None]
ZoneDir(top) == [is_dir |-> TRUE, top |-> top]
TopsOf(z) == {None, z * 100 + 99, z * 100 + 150}

\* _maybe_build_zone_index: (start, top, zone) of every directory whose zone
\* file has an integer top, sorted by start.
zone_index(dirs) ==
  LET zs == SelectSeq(ZoneNums, LAMBDA z : dirs[z].is_dir /\ dirs[z].top # None)
  IN [i \in 1..Len(zs) |-> [start |-> zs[i] * 100, top |-> dirs[zs[i]].top, zone |-> zs[i]]]

\* bisect.bisect_right(starts, v): the number of starts that are <= v.
bisect_right(ranges, v) == Cardinality({i \in 1..Len(ranges) : ranges[i].start <= v})

\* Steps 2 and 3 of _zone_for_vnum: the directory heuristics.
heuristic_zone(dirs, vnum) ==
  LET z1 == vnum \div 100
      z2 == (z1 \div 10) * 10
  IN IF z1 \in ZoneNumSet /\ dirs[z1].is_dir THEN z1
     ELSE IF z2 \in ZoneNumSet /\ dirs[z2].is_dir THEN z2
     ELSE None

\* Steps 4 and 5 of _zone_for_vnum: the range index, then the fallback scan.
range_zone(ranges, vnum) ==
  LET i == bisect_right(ranges, vnum)
      hits == {j \in 1..Len(ranges) : ranges[j].start <= vnum /\ vnum <= ranges[j].top}
  IN IF ranges = <<>> THEN None
     ELSE IF i >= 1 /\ ranges[i].start <= vnum /\ vnum <= ranges[i].top THEN ranges[i].zone
     ELSE IF hits # {} THEN ranges[CHOOSE j \in hits : \A k \in hits : j <= k].zone
     ELSE None

\* The index _zone_for_vnum works with: built on first use, kept afterwards.
index_after(dirs, hint, ranges, built, vnum) ==
  IF hint = None /\ heuristic_zone(dirs, vnum) = None /\ ~built THEN zone_index(dirs) ELSE ranges

zone_for_vnum(dirs, hint, ranges, built, vnum) ==
  IF hint # None THEN hint
  ELSE IF heuristic_zone(dirs, vnum) # None THEN heuristic_zone(dirs, vnum)
  ELSE range_zone(index_after(dirs, hint, ranges, built, vnum), vnum)

NoResolved == [asked |-> FALSE, vnum |-> None, hint |-> None, zone |-> None]

ResolverStart ==
  /\ zone_dirs = [z \in ZoneNumSet |-> NoDir]
  /\ hint_zone = None
  /\ zone_ranges = <<>>
  /\ zone_index_built = FALSE
  /\ resolved = NoResolved

\* The World has been put to use: something was asked of it.
WorldUsed == resolved.asked \/ detected.asked \/ loaded.asked \/ got.asked \/ ge.phase # "idle"

\* The dataset gains zone directory z before the World is put to use.
MkZoneDir(z, top) ==
  /\ ~WorldUsed
  /\ ~zone_dirs[z].is_dir
  /\ zone_dirs' = [zone_dirs EXCEPT ![z] = ZoneDir(top)]
  /\ UNCHANGED <<hint_zone, zone_ranges, zone_index_built, resolved>>
  /\ UNCHANGED <<scanVars, world, queryVars, storeVars, extVars>>

set_hint_zone(h) ==
  /\ hint_zone' = h
  /\ UNCHANGED <<zone_dirs, zone_ranges, zone_index_built, resolved>>
  /\ UNCHANGED <<scanVars, world, queryVars, storeVars, extVars>>

\* One call of World._zone_for_vnum(vnum).
ZoneForVnum(vnum) ==
  /\ resolved' = [asked |-> TRUE, vnum |-> vnum, hint |-> hint_zone,
                  zone |-> zone_for_vnum(zone_dirs, hint_zone, zone_ranges, zone_index_built, vnum)]
  /\ zone_ranges' = index_after(zone_dirs, hint_zone, zone_ranges, zone_index_built, vnum)
  /\ zone_index_built' = (zone_index_built \/ (hint_zone = None /\ heuristic_zone(zone_dirs, vnum) = None))
  /\ UNCHANGED <<zone_dirs, hint_zone>>
  /\ UNCHANGED <<scanVars, world, queryVars, storeVars, extVars>>

\* ---------------------------------------------------------------- edges_from_assemble
\* An assemble file: its vnum and zone, the parts list (None for an element
\* that is not an integer) and the keys result, product and produces, None
\* when the key is absent.
AsmFile(v, z, parts, result, product, produces) ==
  [vnum |-> v, zone |-> z, parts |-> parts, result |-> result, product |-> product,
   produces |-> produces]

NoAsm == AsmFile(None, None, <<>>, None, None, None)

AsmCtx == [cmd |-> None, keywords |-> None]

\* The edge appended for the key k of value rv: none when the key is absent
\* or names the assemble's own vnum.
explicit_result_edges(v, z, k, rv) ==
  IF lut_safe_int(rv) # None /\ lut_safe_int(rv) # v
  THEN <<Edge("assemble", v, "object", lut_safe_int(rv),
              IF k = "result" THEN "produces:result"
              ELSE IF k = "product" THEN "produces:product"
              ELSE "produces:produces", z, AsmCtx)>>
  ELSE <<>>

edges_from_assemble(v, z, data) ==
  LET ps == SelectSeq(data.parts, LAMBDA p : lut_safe_int(p) # None)
  IN <<Edge("assemble", v, "object", v, "produces", z, AsmCtx)>>
     \o [i \in 1..Len(ps) |-> Edge("assemble", v, "object", lut_safe_int(ps[i]), "requires_part", z, AsmCtx)]
     \o explicit_result_edges(v, z, "result", data.result)
     \o explicit_result_edges(v, z, "product", data.product)
     \o explicit_result_edges(v, z, "produces", data.produces)

\* The assemble files handed to the builder.
AsmVnums == {300, 301}
AsmParts == {<<>>, <<7>>, <<7, 8>>, <<7, None>>, <<7, 7>>}
AsmFiles ==
  {AsmFile(v, 3, ps, r, p, q) : v \in AsmVnums, ps \in AsmParts,
                               r \in {None, 300, 301}, p \in {None, 300, 302}, q \in {None, 303}}

AsmStart ==
  /\ asm = NoAsm
  /\ asm_edges = <<>>

\* The builder reaches one assemble file.
EdgesFromAssemble(d) ==
  /\ asm' = d
  /\ asm_edges' = edges_from_assemble(d.vnum, d.zone, d)
  /\ UNCHANGED <<scanVars, world, queryVars, storeVars, resolverVars, loaderVars, txVars, parVars>>

\* ---------------------------------------------------------------- World.load, World.detect_entity_type
\* The kinds detect_entity_type looks for, in its order, and the kinds the
\* dataset has files of.
KindOrder == <<"object", "mobile", "room", "script", "assemble">>
FileKinds == {"object", "mobile"}
NoKind == "none"

\* The vnums that have entity files.
FileVnums == {1050, 1250}

\* The dict read from <zone>/<kind>/<vnum>.json, and the None that load
\* returns when there is no such file.
FileData(z, k, v) == [zone |-> z, kind |-> k, vnum |-> v]
NoData == FileData(None, NoKind, None)

\* Path.exists() of <zone>/<kind>/<vnum>.json.
file_exists(files, z, k, v) == z # None /\ <<z, k, v>> \in files

\* World.entity_file followed by the read: the data of the file the resolver
\* points at, NoData when it points at nothing.
read_entity(dirs, files, hint, ranges, built, k, v) ==
  LET z == zone_for_vnum(dirs, hint, ranges, built, v)
  IN IF file_exists(files, z, k, v) THEN FileData(z, k, v) ELSE NoData

\* World.load(kind, vnum): the data returned, and the cache and the range
\* index after the call.
World_load(dirs, files, hint, ranges, built, cache, k, v) ==
  LET key == <<k, v>>
      first == read_entity(dirs, files, hint, ranges, built, k, v)
      ranges1 == index_after(dirs, hint, ranges, built, v)
      built1 == built \/ (hint = None /\ heuristic_zone(dirs, v) = None)
      second == read_entity(dirs, files, None, ranges1, built1, k, v)
      ranges2 == index_after(dirs, None, ranges1, built1, v)
      built2 == built1 \/ heuristic_zone(dirs, v) = None
  IN IF key \in DOMAIN cache
     THEN [data |-> cache[key], cache |-> cache, ranges |-> ranges, built |-> built]
     ELSE IF first # NoData
     THEN [data |-> first, cache |-> cache @@ (key :> first), ranges |-> ranges1, built |-> built1]
     ELSE IF hint # None
     THEN [data |-> second, cache |-> cache @@ (key :> second), ranges |-> ranges2, built |-> built2]
     ELSE [data |-> NoData, cache |-> cache @@ (key :> NoData), ranges |-> ranges1, built |-> built1]

\* The first kind of KindOrder that has a file for the vnum in zone z.
RECURSIVE first_kind(_, _, _, _)
first_kind(files, z, v, kinds) ==
  IF kinds = <<>> THEN NoKind
  ELSE IF file_exists(files, z, Head(kinds), v) THEN Head(kinds)
  ELSE first_kind(files, z, v, Tail(kinds))

\* World.detect_entity_type(vnum); NoKind is its None.
World_detect_entity_type(dirs, files, hint, ranges, built, v) ==
  LET z == zone_for_vnum(dirs, hint, ranges, built, v)
  IN IF z = None THEN NoKind ELSE first_kind(files, z, v, KindOrder)

\* ---------------------------------------------------------------- DataService.get_entity_by_vnum
\* DataService.zones: the zone directories, sorted.
ds_zones(dirs) == SelectSeq(ZoneNums, LAMBDA z : dirs[z].is_dir)

\* The World of the DataService never has a hint: the data its load returns.
ds_load(dirs, files, k, v) == World_load(dirs, files, None, <<>>, FALSE, <<>>, k, v).data

\* The zones whose directory of kind k holds a file of vnum v: the zone_num of
\* the pairs get_entities collects for v.
file_zones(dirs, files, k, v) == {z \in ZoneNumSet : dirs[z].is_dir /\ <<z, k, v>> \in files}

NoEntity == [vnum |-> None, zone |-> None, entity_type |-> NoKind, data |-> NoData]

\* DataService.get_entities(kind).get(vnum), when the pair of zone zn is the
\* last one collected for the vnum.
get_entity(dirs, files, k, v, zn) ==
  IF file_zones(dirs, files, k, v) # {} /\ ds_load(dirs, files, k, v) # NoData
  THEN [vnum |-> v, zone |-> zn, entity_type |-> k, data |-> ds_load(dirs, files, k, v)]
  ELSE NoEntity

\* DataService.get_entity_by_vnum(vnum).
get_entity_by_vnum(dirs, files, v, zn) ==
  LET k == World_detect_entity_type(dirs, files, None, <<>>, FALSE, v)
  IN IF k = NoKind THEN NoEntity ELSE get_entity(dirs, files, k, v, zn)

\* ---------------------------------------------------------------- the World at work
MaxFiles == 2

NoDetected == [asked |-> FALSE, vnum |-> None, hint |-> None, kind |-> NoKind]
NoLoaded == [asked |-> FALSE, kind |-> NoKind, vnum |-> None, hint |-> None, data |-> NoData]
NoGot == [asked |-> FALSE, vnum |-> None, entity |-> NoEntity]

LoaderStart ==
  /\ ent_files = {}
  /\ w_cache = <<>>
  /\ detected = NoDetected
  /\ loaded = NoLoaded
  /\ got = NoGot

\* The dataset gains the file <z>/<k>/<v>.json before the World is put to use.
MkEntityFile(z, k, v) ==
  /\ ~WorldUsed
  /\ zone_dirs[z].is_dir
  /\ <<z, k, v>> \notin ent_files
  /\ Cardinality(ent_files) < MaxFiles
  /\ ent_files' = ent_files \cup {<<z, k, v>>}
  /\ UNCHANGED <<w_cache, detected, loaded, got>>
  /\ UNCHANGED <<scanVars, world, queryVars, storeVars, resolverVars, asmVars, txVars, parVars>>

\* One call of World.detect_entity_type(vnum).
DetectEntityType(v) ==
  /\ detected' = [asked |-> TRUE, vnum |-> v, hint |-> hint_zone,
                  kind |-> World_detect_entity_type(zone_dirs, ent_files, hint_zone, zone_ranges,
                                                    zone_index_built, v)]
  /\ zone_ranges' = index_after(zone_dirs, hint_zone, zone_ranges, zone_index_built, v)
  /\ zone_index_built' = (zone_index_built \/ (hint_zone = None /\ heuristic_zone(zone_dirs, v) = None))
  /\ UNCHANGED <<zone_dirs, hint_zone, resolved>>
  /\ UNCHANGED <<ent_files, w_cache, loaded, got>>
  /\ UNCHANGED <<scanVars, world, queryVars, storeVars, asmVars, txVars, parVars>>

\* One call of World.load(kind, vnum).
Load(k, v) ==
  LET r == World_load(zone_dirs, ent_files, hint_zone, zone_ranges, zone_index_built, w_cache, k, v)
  IN /\ loaded' = [asked |-> TRUE, kind |-> k, vnum |-> v, hint |-> hint_zone, data |-> r.data]
     /\ w_cache' = r.cache
     /\ zone_ranges' = r.ranges
     /\ zone_index_built' = r.built
     /\ UNCHANGED <<zone_dirs, hint_zone, resolved>>
     /\ UNCHANGED <<ent_files, detected, got>>
     /\ UNCHANGED <<scanVars, world, queryVars, storeVars, asmVars, txVars, parVars>>

\* One call of DataService.get_entity_by_vnum(vnum) on a DataService of its
\* own World; the pairs of a vnum are collected in the order the workers
\* finish, zn being the zone of the last one.
GetEntityByVnum(v) ==
  /\ \E zn \in ZoneNumSet :
       /\ LET k == World_detect_entity_type(zone_dirs, ent_files, None, <<>>, FALSE, v)
          IN k # NoKind => (file_zones(zone_dirs, ent_files, k, v) = {} \/ zn \in file_zones(zone_dirs, ent_files, k, v))
       /\ got' = [asked |-> TRUE, vnum |-> v, entity |-> get_entity_by_vnum(zone_dirs, ent_files, v, zn)]
  /\ UNCHANGED <<ent_files, w_cache, detected, loaded>>
  /\ UNCHANGED <<scanVars, world, queryVars, storeVars, resolverVars, asmVars, txVars, parVars>>

\* ---------------------------------------------------------------- DataService.get_entities
\* The vnums of the files get_entities loads, in the order iterdir yields them.
ParVnums == <<1310, 1320>>

\* max_workers = min(8, max(2, (len(files) // 100) or 2)) for fewer than 300 files.
MaxWorkers == 2

\* The (zone_num, vnum) pairs of the files of kind k, zone by zone.
RECURSIVE collect_files(_, _, _)
collect_files(files, k, zs) ==
  IF zs = <<>> THEN <<>>
  ELSE LET z == Head(zs)
           vs == SelectSeq(ParVnums, LAMBDA v : <<z, k, v>> \in files)
       IN [i \in 1..Len(vs) |-> [zone |-> z, vnum |-> vs[i]]] \o collect_files(files, k, Tail(zs))

\* The World of the DataService, shared by the workers: it has no hint.
NewWorld == [ranges |-> <<>>, starts |-> <<>>, built |-> FALSE, cache |-> <<>>]

\* A worker's call of _load_one: where it is, and its local variables.
Task(f) == [file |-> f, pc |-> "queued", ranges |-> <<>>, i |-> 0, zone |-> None, data |-> NoData]

NoGetEntities == [phase |-> "idle", kind |-> NoKind, entities |-> <<>>]

ParStart ==
  /\ ds_world = NewWorld
  /\ tasks = <<>>
  /\ ge = NoGetEntities

\* get_entities(kind) collects the files and submits one task for each.
GetEntities(k) ==
  /\ ge.phase = "idle"
  /\ ~WorldUsed
  /\ ent_files # {}
  /\ LET fl == collect_files(ent_files, k, ds_zones(zone_dirs))
     IN tasks' = [i \in 1..Len(fl) |-> Task(fl[i])]
  /\ ge' = [phase |-> "running", kind |-> k, entities |-> <<>>]
  /\ UNCHANGED ds_world
  /\ UNCHANGED <<scanVars, world, queryVars, storeVars, resolverVars, asmVars, loaderVars, txVars>>

Running == {i \in 1..Len(tasks) : tasks[i].pc \notin {"queued", "done", "collected"}}

\* A free worker takes the next task of the queue; load starts with the
\* cache lookup.
TaskStart(t) ==
  /\ tasks[t].pc = "queued"
  /\ Cardinality(Running) < MaxWorkers
  /\ \A u \in 1..(t - 1) : tasks[u].pc # "queued"
  /\ tasks' = [tasks EXCEPT ![t].pc = "cache"]
  /\ UNCHANGED <<ds_world, ge>>
  /\ UNCHANGED <<scanVars, world, queryVars, storeVars, resolverVars, asmVars, loaderVars, txVars>>

\* if key in self._cache: return self._cache[key]
TaskCache(t) ==
  /\ tasks[t].pc = "cache"
  /\ LET key == <<ge.kind, tasks[t].file.vnum>>
     IN tasks' = IF key \in DOMAIN ds_world.cache
                 THEN [tasks EXCEPT ![t].pc = "done", ![t].data = ds_world.cache[key]]
                 ELSE [tasks EXCEPT ![t].pc = "resolve"]
  /\ UNCHANGED <<ds_world, ge>>
  /\ UNCHANGED <<scanVars, world, queryVars, storeVars, resolverVars, asmVars, loaderVars, txVars>>

\* _zone_for_vnum, steps 2 and 3, then the test of _zone_index_built and the
\* scan of the zone files into the local list.
TaskResolve(t) ==
  /\ tasks[t].pc = "resolve"
  /\ LET z == heuristic_zone(zone_dirs, tasks[t].file.vnum)
     IN tasks' = IF z # None THEN [tasks EXCEPT ![t].pc = "read", ![t].zone = z]
                 ELSE IF ds_world.built THEN [tasks EXCEPT ![t].pc = "lookup"]
                 ELSE [tasks EXCEPT ![t].pc = "set_ranges", ![t].ranges = zone_index(zone_dirs)]
  /\ UNCHANGED <<ds_world, ge>>
  /\ UNCHANGED <<scanVars, world, queryVars, storeVars, resolverVars, asmVars, loaderVars, txVars>>

\* self._zone_ranges = ranges
TaskSetRanges(t) ==
  /\ tasks[t].pc = "set_ranges"
  /\ ds_world' = [ds_world EXCEPT !.ranges = tasks[t].ranges]
  /\ tasks' = [tasks EXCEPT ![t].pc = "set_starts"]
  /\ UNCHANGED ge
  /\ UNCHANGED <<scanVars, world, queryVars, storeVars, resolverVars, asmVars, loaderVars, txVars>>

\* self._zone_starts = [r[0] for r in ranges]
TaskSetStarts(t) ==
  /\ tasks[t].pc = "set_starts"
  /\ ds_world' = [ds_world EXCEPT !.starts = [j \in 1..Len(tasks[t].ranges) |-> tasks[t].ranges[j].start]]
  /\ tasks' = [tasks EXCEPT ![t].pc = "set_built"]
  /\ UNCHANGED ge
  /\ UNCHANGED <<scanVars, world, queryVars, storeVars, resolverVars, asmVars, loaderVars, txVars>>

\* self._zone_index_built = True
TaskSetBuilt(t) ==
  /\ tasks[t].pc = "set_built"
  /\ ds_world' = [ds_world EXCEPT !.built = TRUE]
  /\ tasks' = [tasks EXCEPT ![t].pc = "lookup"]
  /\ UNCHANGED ge
  /\ UNCHANGED <<scanVars, world, queryVars, storeVars, resolverVars, asmVars, loaderVars, txVars>>

\* if not self._zone_ranges: return None; then the bisect over _zone_starts.
TaskLookup(t) ==
  /\ tasks[t].pc = "lookup"
  /\ tasks' = IF ds_world.ranges = <<>> THEN [tasks EXCEPT ![t].pc = "read", ![t].zone = None]
              ELSE [tasks EXCEPT ![t].pc = "range",
                                 ![t].i = Cardinality({j \in 1..Len(ds_world.starts) :
                                                         ds_world.starts[j] <= tasks[t].file.vnum})]
  /\ UNCHANGED <<ds_world, ge>>
  /\ UNCHANGED <<scanVars, world, queryVars, storeVars, resolverVars, asmVars, loaderVars, txVars>>

\* The range at the bisect position, then the fallback scan, both over
\* _zone_ranges as it is now.
TaskRange(t) ==
  /\ tasks[t].pc = "range"
  /\ LET rs == ds_world.ranges
         v == tasks[t].file.vnum
         i == tasks[t].i
         hits == {j \in 1..Len(rs) : rs[j].start <= v /\ v <= rs[j].top}
         z == IF i >= 1 /\ i <= Len(rs) /\ rs[i].start <= v /\ v <= rs[i].top THEN rs[i].zone
              ELSE IF hits # {} THEN rs[CHOOSE j \in hits : \A m \in hits : j <= m].zone
              ELSE None
     IN tasks' = [tasks EXCEPT ![t].pc = "read", ![t].zone = z]
  /\ UNCHANGED <<ds_world, ge>>
  /\ UNCHANGED <<scanVars, world, queryVars, storeVars, resolverVars, asmVars, loaderVars, txVars>>

\* The file of the zone found is read, or None taken; there is no hint to
\* retry without.
TaskRead(t) ==
  /\ tasks[t].pc = "read"
  /\ LET z == tasks[t].zone
         v == tasks[t].file.vnum
     IN tasks' = [tasks EXCEPT ![t].pc = "store",
                               ![t].data = IF file_exists(ent_files, z, ge.kind, v)
                                           THEN FileData(z, ge.kind, v) ELSE NoData]
  /\ UNCHANGED <<ds_world, ge>>
  /\ UNCHANGED <<scanVars, world, queryVars, storeVars, resolverVars, asmVars, loaderVars, txVars>>

\* self._cache[key] = data, and load returns.
TaskStore(t) ==
  /\ tasks[t].pc = "store"
  /\ ds_world' = [ds_world EXCEPT !.cache = (<<ge.kind, tasks[t].file.vnum>> :> tasks[t].data) @@ @]
  /\ tasks' = [tasks EXCEPT ![t].pc = "done"]
  /\ UNCHANGED ge
  /\ UNCHANGED <<scanVars, world, queryVars, storeVars, resolverVars, asmVars, loaderVars, txVars>>

\* as_completed hands a finished future to the loop of get_entities.
Collect(t) ==
  /\ tasks[t].pc = "done"
  /\ tasks' = [tasks EXCEPT ![t].pc = "collected"]
  /\ ge' = IF tasks[t].data # NoData
           THEN [ge EXCEPT !.entities =
                   (tasks[t].file.vnum :> [vnum |-> tasks[t].file.vnum, zone |-> tasks[t].file.zone,
                                           entity_type |-> ge.kind, data |-> tasks[t].data]) @@ @]
           ELSE ge
  /\ UNCHANGED ds_world
  /\ UNCHANGED <<scanVars, world, queryVars, storeVars, resolverVars, asmVars, loaderVars, txVars>>

\* Every future has been handed over: the map goes to _entity_cache.
GetEntitiesEnd ==
  /\ ge.phase = "running"
  /\ \A t \in 1..Len(tasks) : tasks[t].pc = "collected"
  /\ ge' = [ge EXCEPT !.phase = "done"]
  /\ UNCHANGED <<ds_world, tasks>>
  /\ UNCHANGED <<scanVars, world, queryVars, storeVars, resolverVars, asmVars, loaderVars, txVars>>

\* get_entities with the loads made one after the other, in the order of the
\* files: the last file of a vnum gives the zone.
get_entities_sequential(dirs, files, k) ==
  LET vs == {v \in {ParVnums[i] : i \in 1..Len(ParVnums)} :
               file_zones(dirs, files, k, v) # {} /\ ds_load(dirs, files, k, v) # NoData}
  IN [v \in vs |->
        [vnum |-> v,
         zone |-> CHOOSE z \in file_zones(dirs, files, k, v) : \A y \in file_zones(dirs, files, k, v) : y <= z,
         entity_type |-> k, data |-> ds_load(dirs, files, k, v)]]

\* ---------------------------------------------------------------- the scan
\* The number of commands read so far, all zones together.
RECURSIVE TotalCmds(_)
TotalCmds(w) == IF w = <<>> THEN 0 ELSE Len(Head(w)) + TotalCmds(Tail(w))

NoPart == [loadable |-> FALSE, best_rate |-> 0, locations |-> <<>>]

NoRecipe == [zone |-> 0, result_vnum |-> 0, parts |-> <<>>]

NoAnalysis == [zone_accessible |-> FALSE, all_parts_loadable |-> FALSE, overall_rate |-> 0]

NoApiAnalysis == [accessible |-> FALSE, success_rate |-> 0]

\* Nothing has been queried yet.
Scanning == qv = None /\ recipe = NoRecipe

ScanInit ==
  /\ qv = None
  /\ locations = <<>>
  /\ ws_locations = <<>>
  /\ part = NoPart
  /\ accessible = FALSE
  /\ recipe = NoRecipe
  /\ analysis = NoAnalysis
  /\ api_analysis = NoApiAnalysis
  /\ zone = 1
  /\ cmds = <<(<<>>)>>
  /\ rr_ctx = rr_init
  /\ rr_lines = <<>>
  /\ lut_mob = None
  /\ lut_edges = <<>>
  /\ lut_zrows = <<>>
  /\ pz_rows = <<>>
  /\ ResolverStart
  /\ AsmStart
  /\ LoaderStart
  /\ TxStart
  /\ ParStart
  /\ ds_mob = None
  /\ ds_index = <<>>
  /\ gs_mob = None
  /\ gs_assoc = <<>>
  /\ ai_mob = None
  /\ ai_index = <<>>
  /\ ws_mob = None
  /\ ws_locs = <<>>
  /\ StoreStart

\* Every reader consumes the next command c of the current zone.
Feed(c) ==
  /\ Scanning
  /\ TotalCmds(cmds) < MaxCmds
  /\ cmds' = [cmds EXCEPT ![zone] = Append(@, c)]
  /\ zone' = zone
  /\ LET r == render_resets_step(rr_ctx, c)
     IN /\ rr_ctx' = r.ctx
        /\ rr_lines' = Append(rr_lines, r.line)
  /\ LET r == edges_from_zone_cmds_step(lut_mob, zone, c)
     IN /\ lut_mob' = r.mob
        /\ lut_edges' = lut_edges \o r.edges
        /\ lut_zrows' = lut_zrows \o zone_cmd_rows_step(zone, Len(cmds[zone]), c)
  /\ pz_rows' = Append(pz_rows, process_zone_row(zone, Len(pz_rows) + 1, c))
  /\ LET r == get_command_index_step(ds_mob, zone, c)
     IN /\ ds_mob' = r.mob
        /\ ds_index' = ds_index \o r.entries
  /\ LET r == find_associations_step(gs_mob, zone, c)
     IN /\ gs_mob' = r.mob
        /\ gs_assoc' = gs_assoc \o r.entries
  /\ LET r == build_zone_command_index_step(ai_mob, zone, c)
     IN /\ ai_mob' = r.mob
        /\ ai_index' = ai_index \o r.entries
  /\ LET r == ws_get_load_locations_step(ws_mob, zone, c)
     IN /\ ws_mob' = r.mob
        /\ ws_locs' = ws_locs \o r.entries
  /\ UNCHANGED <<world, queryVars, storeVars, resolverVars, extVars>>

\* The stream of the current zone ends and the next zone's begins: the readers
\* called once per zone start afresh, the per-zone loops re-initialise their
\* current mobile, find_associations keeps its own across zones.
NextZone ==
  /\ Scanning
  /\ zone < MaxZones
  /\ zone' = zone + 1
  /\ cmds' = Append(cmds, <<>>)
  /\ rr_ctx' = rr_init
  /\ rr_lines' = <<>>
  /\ lut_mob' = None
  /\ lut_edges' = <<>>
  /\ lut_zrows' = <<>>
  /\ pz_rows' = <<>>
  /\ ds_mob' = None
  /\ ai_mob' = None
  /\ ws_mob' = None
  /\ UNCHANGED <<ds_index, gs_mob, gs_assoc, ai_index, ws_locs, world, queryVars, storeVars, resolverVars, extVars>>

\* ---------------------------------------------------------------- specification: interpretation
\* Commands of every op-code: two mobiles, two room objects, two containers.
InterpCmds ==
  {Cmd(op, a1, 1, 100) : op \in MobLoad \cup ObjLoad, a1 \in 1..2}
  \cup {Cmd(op, 1, 1, 100) : op \in Equip \cup Give}
  \cup {Cmd(op, 1, a3, 100) : op \in Put, a3 \in 1..2}
  \cup {Cmd(op, 1, 1, 100) : op \in {"D", "R", "A", "?"}}

\* A world without entity files.
EmptyWorld == [objects |-> {}, mobiles |-> <<>>, scripts |-> <<>>, recipes |-> {}]

Init == ScanInit /\ world = EmptyWorld /\ use_sha1 = FALSE

Next ==
  \/ \E c \in InterpCmds : Feed(c)
  \/ NextZone

Spec == Init /\ [][Next]_vars

\* ---------------------------------------------------------------- specification: index builds
InitLut == ScanInit /\ world = EmptyWorld /\ use_sha1 \in BOOLEAN

NextLut ==
  \/ \E p \in PathSet : \E b \in BodiesOf(p) : WriteFile(p, b)
  \/ \E p \in PathSet : RemoveFile(p)
  \/ \E zones \in {{}, {1}} : \E full \in BOOLEAN : Build(zones, full)

SpecLut == InitLut /\ [][NextLut]_vars

\* ---------------------------------------------------------------- specification: zone of a vnum
NextResolver ==
  \/ \E z \in ZoneNumSet : \E top \in TopsOf(z) : MkZoneDir(z, top)
  \/ \E h \in ZoneNumSet \cup {None} : set_hint_zone(h)
  \/ \E v \in Vnums : ZoneForVnum(v)

SpecResolver == Init /\ [][NextResolver]_vars

\* ---------------------------------------------------------------- specification: assemble edges
NextAsm == \E d \in AsmFiles : EdgesFromAssemble(d)

SpecAsm == Init /\ [][NextAsm]_vars

\* ---------------------------------------------------------------- specification: entity lookups
\* The datasets of the lookups: zone directories whose zone file has the
\* top of a zone of a hundred vnums.
NextDetect ==
  \/ \E z \in ZoneNumSet : MkZoneDir(z, z * 100 + 99)
  \/ \E z \in ZoneNumSet, k \in FileKinds, v \in FileVnums : MkEntityFile(z, k, v)
  \/ \E h \in ZoneNumSet \cup {None} : set_hint_zone(h)
  \/ \E v \in FileVnums : DetectEntityType(v)
  \/ \E v \in FileVnums : GetEntityByVnum(v)

SpecDetect == Init /\ [][NextDetect]_vars

\* ---------------------------------------------------------------- specification: entity loads
NextLoad ==
  \/ \E z \in ZoneNumSet : MkZoneDir(z, z * 100 + 99)
  \/ \E z \in ZoneNumSet, k \in FileKinds, v \in FileVnums : MkEntityFile(z, k, v)
  \/ \E h \in ZoneNumSet \cup {None} : set_hint_zone(h)
  \/ \E k \in FileKinds, v \in FileVnums : Load(k, v)

SpecLoad == Init /\ [][NextLoad]_vars

\* ---------------------------------------------------------------- specification: incremental builds
\* The bodies a file is written with: those of the index builds, and for the
\* script of zone 1 also a body with another vnum.
IncBodies(p) == BodiesOf(p) \cup (IF p = ScriptA THEN {ScriptBody(6, 6, 7)} ELSE {})

NextInc ==
  \/ \E p \in PathSet : \E b \in IncBodies(p) : WriteFile(p, b)
  \/ \E p \in PathSet : RemoveFile(p)
  \/ Build({}, FALSE)

SpecInc == InitLut /\ [][NextInc]_vars

\* ---------------------------------------------------------------- specification: interrupted builds
\* The world is edited between builds; a build runs file by file and may be
\* interrupted at any point.
NextTx ==
  \/ \E p \in PathSet : \E b \in IncBodies(p) : ~run.active /\ WriteFile(p, b)
  \/ \E p \in PathSet : ~run.active /\ RemoveFile(p)
  \/ \E full \in BOOLEAN : BuildBegin(full)
  \/ BuildFile
  \/ BuildEndZone
  \/ BuildFinish
  \/ BuildInterrupt

SpecTx == InitLut /\ [][NextTx]_vars

\* ---------------------------------------------------------------- specification: parallel loads
\* The dataset is laid out, then get_entities("object") runs its workers.
NextPar ==
  \/ \E z \in ZoneNumSet : \E top \in TopsOf(z) \ {None} : MkZoneDir(z, top)
  \/ \E z \in ZoneNumSet, i \in 1..Len(ParVnums) : ge.phase = "idle" /\ MkEntityFile(z, "object", ParVnums[i])
  \/ GetEntities("object")
  \/ \E t \in 1..Len(tasks) :
       \/ TaskStart(t)
       \/ TaskCache(t)
       \/ TaskResolve(t)
       \/ TaskSetRanges(t)
       \/ TaskSetStarts(t)
       \/ TaskSetBuilt(t)
       \/ TaskLookup(t)
       \/ TaskRange(t)
       \/ TaskRead(t)
       \/ TaskStore(t)
       \/ Collect(t)
  \/ GetEntitiesEnd

SpecPar == Init /\ [][NextPar]_vars

\* ---------------------------------------------------------------- specification: conditional flags
\* Commands with and without a conditional flag.
FlagCmds ==
  {[c EXCEPT !.flag = f] :
     c \in {Cmd("M", 1, 1, 100), Cmd("M", 2, 1, 100), Cmd("O", 1, 1, 100), Cmd("E", 1, 1, 100),
            Cmd("G", 1, 1, 100), Cmd("P", 1, 1, 100), Cmd("D", 1, 1, 100)},
     f \in {0, 1}}

NextFlag ==
  \/ \E c \in FlagCmds : Feed(c)
  \/ NextZone

SpecFlag == Init /\ [][NextFlag]_vars

\* ---------------------------------------------------------------- specification: zone-command rows
\* Commands with a known op-code, an unknown one and none, with and without arguments.
RowCmds ==
  {Cmd("M", 1, 1, 100), Cmd("E", 1, 1, 50), Cmd("?", 1, 1, 100), Cmd("O", None, None, None),
   Cmd(NoCmd, 1, 1, 100)}

NextRows ==
  \/ \E c \in RowCmds : Feed(c)
  \/ NextZone

SpecRows == Init /\ [][NextRows]_vars

\* ---------------------------------------------------------------- specification: load locations
MaxLocCmds == 3

\* The queries for vnum v, once the streams are read: the load locations of
\* both services and the part analysis.
Query(v) ==
  /\ Scanning
  /\ qv' = v
  /\ locations' = get_load_locations(world, ds_index, v)
  /\ ws_locations' = ws_get_load_locations(ws_locs, v)
  /\ part' = analyze_part_loadability(world, ai_index, v)
  /\ accessible' = part_accessible(world, ds_index, cmds, v)
  /\ UNCHANGED <<scanVars, world, recipe, analysis, api_analysis, storeVars, resolverVars, extVars>>

Mobile(v, z, repops) == [vnum |-> v, zone |-> z, repops |-> repops, spec_proc |-> FALSE]

\* A script file whose "code" text mentions and creates the given vnums and
\* whose "script" text is empty.
Script(v, z, mentions, creates, cond) ==
  [vnum |-> v, zone |-> z, mentions |-> mentions, creates |-> creates, conditional |-> cond,
   script_mentions |-> {}, script_obj_to |-> FALSE]

\* Objects 1 and 3 (a container), mobile 2, room 4; mobile 2 without or with a
\* repop entry for object 1, or a script that mentions object 1.
LocWorlds ==
  {[objects |-> {1, 3}, mobiles |-> <<Mobile(2, 1, <<>>)>>, scripts |-> <<>>, recipes |-> {}],
   [objects |-> {1, 3}, mobiles |-> <<Mobile(2, 1, <<[vnum |-> 1, percent |-> 80]>>)>>, scripts |-> <<>>, recipes |-> {}],
   [objects |-> {1, 3}, mobiles |-> <<Mobile(2, 1, <<>>)>>,
    scripts |-> <<Script(5, 1, {1}, {}, FALSE)>>, recipes |-> {}]}

\* Placement commands for object 1 with probabilities within 0..100.
LocCmds ==
  {Cmd("M", 2, 4, 100), Cmd("D", 4, 0, 100),
   Cmd("O", 1, 4, 70), Cmd("O", 3, 4, 100),
   Cmd("E", 1, 3, 50), Cmd("E", 1, 3, 100), Cmd("Z", 1, 3, 20),
   Cmd("G", 1, 3, 30), Cmd("P", 1, 3, 100)}

QueryVnums == {1, 3}

LocFeed(c) == TotalCmds(cmds) < MaxLocCmds /\ Feed(c)

InitLoc == ScanInit /\ world \in LocWorlds /\ use_sha1 = FALSE

NextLoc ==
  \/ \E c \in LocCmds : LocFeed(c)
  \/ NextZone
  \/ \E v \in QueryVnums : Query(v)

SpecLoc == InitLoc /\ [][NextLoc]_vars

\* ---------------------------------------------------------------- specification: any prob field
\* Placement commands whose prob field is absent or lies outside 0..100.
AnyProbCmds ==
  {Cmd("O", 1, 4, 150), Cmd("E", 1, 3, 0 - 5), Cmd("G", 1, 3, None), Cmd("P", 1, 3, 150)}

\* Mobile 2 with a repop entry of 150 percent, or without percent.
AnyProbWorlds ==
  {[objects |-> {1, 3}, mobiles |-> <<Mobile(2, 1, <<[vnum |-> 1, percent |-> 150]>>)>>, scripts |-> <<>>, recipes |-> {}],
   [objects |-> {1, 3}, mobiles |-> <<Mobile(2, 1, <<[vnum |-> 1, percent |-> None]>>)>>, scripts |-> <<>>, recipes |-> {}]}

InitLocAny == ScanInit /\ world \in LocWorlds \cup AnyProbWorlds /\ use_sha1 = FALSE

NextLocAny ==
  \/ \E c \in LocCmds \cup AnyProbCmds : LocFeed(c)
  \/ NextZone
  \/ \E v \in QueryVnums : Query(v)

SpecLocAny == InitLocAny /\ [][NextLocAny]_vars

\* ---------------------------------------------------------------- specification: recipes
\* The analysis of recipe r, once the streams are read.
AnalyzeRecipe(r) ==
  /\ Scanning
  /\ recipe' = r
  /\ analysis' = analyze_accessibility(world, ai_index, zone, r)
  /\ api_analysis' = analyze_assembly_accessibility(ws_locs, r.parts)
  /\ UNCHANGED <<scanVars, world, qv, locations, ws_locations, part, accessible, storeVars, resolverVars, extVars>>

PartVnums == {1, 6, 7}

\* The part lists of at most MaxParts parts.
PartLists == UNION {[1..n -> PartVnums] : n \in 1..MaxParts}

\* The assemble files: object 6 is made of object 7 and object 7 of object 6,
\* and object 8 has a recipe for every other part list.
RecipeOf(parts) ==
  [zone |-> 1,
   result_vnum |-> IF parts = <<7>> THEN 6 ELSE IF parts = <<6>> THEN 7 ELSE 8,
   parts |-> parts]

Recipes == {RecipeOf(ps) : ps \in PartLists}

\* Objects 1, 6, 7, 8 and mobile 2, with or without a special procedure.
ReachWorlds ==
  {[objects |-> {1, 6, 7, 8},
    mobiles |-> <<[Mobile(2, 1, <<>>) EXCEPT !.spec_proc = sp]>>,
    scripts |-> <<>>, recipes |-> Recipes] : sp \in BOOLEAN}

ReachCmds ==
  {Cmd("M", 2, 4, 100), Cmd("E", 1, 3, 70), Cmd("O", 1, 4, 50), Cmd("O", 1, 4, 100),
   Cmd("O", 6, 4, 50), Cmd("O", 7, 4, 0)}

InitReach == ScanInit /\ world \in ReachWorlds /\ use_sha1 = FALSE

NextReach ==
  \/ \E c \in ReachCmds : LocFeed(c)
  \/ \E r \in world.recipes : AnalyzeRecipe(r)
  \/ \E v \in PartVnums : Query(v)

SpecReach == InitReach /\ [][NextReach]_vars

\* ---------------------------------------------------------------- specification: edited probabilities
\* The state of every reader before the first command of a zone.
ScanStart ==
  [rr_ctx |-> rr_init, rr_lines |-> <<>>, lut_mob |-> None, lut_edges |-> <<>>,
   lut_zrows |-> <<>>, pz_rows |-> <<>>, ds_mob |-> None, ds_index |-> <<>>, gs_mob |-> None,
   gs_assoc |-> <<>>, ai_mob |-> None, ai_index |-> <<>>, ws_mob |-> None, ws_locs |-> <<>>,
   n |-> 0]

\* Every reader consumes command c of zone z, as in Feed.
scan_step(st, z, c) ==
  LET rr == render_resets_step(st.rr_ctx, c)
      lut == edges_from_zone_cmds_step(st.lut_mob, z, c)
      ds == get_command_index_step(st.ds_mob, z, c)
      gs == find_associations_step(st.gs_mob, z, c)
      ai == build_zone_command_index_step(st.ai_mob, z, c)
      ws == ws_get_load_locations_step(st.ws_mob, z, c)
  IN [rr_ctx |-> rr.ctx, rr_lines |-> Append(st.rr_lines, rr.line),
      lut_mob |-> lut.mob, lut_edges |-> st.lut_edges \o lut.edges,
      lut_zrows |-> st.lut_zrows \o zone_cmd_rows_step(z, st.n, c),
      pz_rows |-> Append(st.pz_rows, process_zone_row(z, st.n + 1, c)),
      ds_mob |-> ds.mob, ds_index |-> st.ds_index \o ds.entries,
      gs_mob |-> gs.mob, gs_assoc |-> st.gs_assoc \o gs.entries,
      ai_mob |-> ai.mob, ai_index |-> st.ai_index \o ai.entries,
      ws_mob |-> ws.mob, ws_locs |-> st.ws_locs \o ws.entries,
      n |-> st.n + 1]

RECURSIVE scan_run(_, _, _)
scan_run(st, z, s) ==
  IF s = <<>> THEN st ELSE scan_run(scan_step(st, z, Head(s)), z, Tail(s))

\* The prob of command k of the one zone file is lowered to q and the zone
\* is read again by every reader.
LowerProb(k, q) ==
  /\ Scanning
  /\ zone = 1
  /\ k \in 1..Len(cmds[1])
  /\ cmds[1][k].prob # None
  /\ q < cmds[1][k].prob
  /\ LET s == [cmds[1] EXCEPT ![k].prob = q]
         st == scan_run(ScanStart, 1, s)
     IN /\ cmds' = <<s>>
        /\ rr_ctx' = st.rr_ctx
        /\ rr_lines' = st.rr_lines
        /\ lut_mob' = st.lut_mob
        /\ lut_edges' = st.lut_edges
        /\ lut_zrows' = st.lut_zrows
        /\ pz_rows' = st.pz_rows
        /\ ds_mob' = st.ds_mob
        /\ ds_index' = st.ds_index
        /\ gs_mob' = st.gs_mob
        /\ gs_assoc' = st.gs_assoc
        /\ ai_mob' = st.ai_mob
        /\ ai_index' = st.ai_index
        /\ ws_mob' = st.ws_mob
        /\ ws_locs' = st.ws_locs
  /\ UNCHANGED <<zone, world, queryVars, storeVars, resolverVars, extVars>>

\* Placement commands for the parts 1 and 6, some with a negative prob.
MonoCmds ==
  {Cmd("M", 2, 4, 100), Cmd("E", 1, 3, 70), Cmd("O", 1, 4, 50), Cmd("O", 1, 4, 100),
   Cmd("O", 1, 4, 0 - 50), Cmd("O", 6, 4, 50), Cmd("O", 6, 4, 0 - 50)}

LowerProbs == {0 - 100, 0, 50}

NextMono ==
  \/ \E c \in MonoCmds : LocFeed(c)
  \/ \E k \in 1..MaxLocCmds : \E q \in LowerProbs : LowerProb(k, q)
  \/ \E r \in world.recipes : AnalyzeRecipe(r)

SpecMono == InitReach /\ [][NextMono]_vars

\* ---------------------------------------------------------------- properties of the interpretation
EquipGive == Equip \cup Give

\* The positions of stream s holding an equip/give command, in order.
EquipGivePositions(s) == {i \in 1..Len(s) : s[i].cmd \in EquipGive}

\* A mobile-load command stands before position i of stream s.
MobLoadBefore(s, i) == \E j \in 1..(i - 1) : s[j].cmd \in MobLoad

\* The most recent command of s that is no equip/give command is a mobile load.
LastOtherIsMobLoad(s) ==
  \E j \in 1..Len(s) :
    /\ s[j].cmd \in MobLoad
    /\ \A k \in (j + 1)..Len(s) : s[k].cmd \in EquipGive

\* C1: at every position of the fold over a zone's stream, the current-mobile
\* context of each reader (render_resets, edges_from_zone_cmds,
\* get_command_index) is non-null only if the most recent command that is not
\* an equip/give command is a mobile load.
C1_ContextOnlyAfterMobLoad ==
  \A m \in {rr_ctx.current_mob, lut_mob, ds_mob} :
    m # None => LastOtherIsMobLoad(cmds[zone])

\* The "Carried by mobiles" entries find_associations records for zone z, in order.
CarriedOf(z) == SelectSeq(gs_assoc, LAMBDA e : e.category = "Carried by mobiles" /\ e.zone = z)

\* The number of equip/give commands among the first i commands of s.
EquipGiveRank(s, i) == Cardinality({j \in EquipGivePositions(s) : j <= i})

\* C2: every equip/give command with no mobile load before it in its own
\* zone's stream is recorded, once, as a placement without mobile context:
\* render_resets prints it with no mobile, find_associations records it with
\* an unknown mobile (also when an earlier zone loaded one), and
\* edges_from_zone_cmds derives a row from it instead of dropping it.
C2_NoMobileContextRecorded ==
  /\ \A i \in EquipGivePositions(cmds[zone]) :
        ~MobLoadBefore(cmds[zone], i) =>
          /\ rr_lines[i].kind \in {"Equip", "Give"}
          /\ rr_lines[i].target = None
          /\ \E k \in 1..Len(lut_edges) : lut_edges[k].ctx = cmds[zone][i]
  /\ \A z \in 1..zone :
        /\ Len(CarriedOf(z)) = Cardinality(EquipGivePositions(cmds[z]))
        /\ \A i \in EquipGivePositions(cmds[z]) :
              ~MobLoadBefore(cmds[z], i) => CarriedOf(z)[EquipGiveRank(cmds[z], i)].mob = None

\* The other letter of a command's op-code pair.
Twin(op) ==
  CASE op = "M" -> "W" [] op = "W" -> "M"
    [] op = "O" -> "X" [] op = "X" -> "O"
    [] op = "E" -> "Z" [] op = "Z" -> "E"
    [] op = "G" -> "Y" [] op = "Y" -> "G"
    [] op = "P" -> "Q" [] op = "Q" -> "P"
    [] OTHER -> op

\* The kind of an edge, its relation without the op-code letter.
EdgeKind(e) == <<e.src_kind, e.dst_kind, e.src_vnum, e.dst_vnum>>

\* C10: in every context a reader can be in, a command and the same command
\* with the other letter of its pair update the context alike and emit the
\* same kind of edge or placement (edges_from_zone_cmds, get_command_index).
C10_PairLettersAlike ==
  \A c \in InterpCmds :
    LET d == [c EXCEPT !.cmd = Twin(c.cmd)]
        l1 == edges_from_zone_cmds_step(lut_mob, zone, c)
        l2 == edges_from_zone_cmds_step(lut_mob, zone, d)
        d1 == get_command_index_step(ds_mob, zone, c)
        d2 == get_command_index_step(ds_mob, zone, d)
    IN /\ l1.mob = l2.mob
       /\ Len(l1.edges) = Len(l2.edges)
       /\ \A k \in 1..Len(l1.edges) : EdgeKind(l1.edges[k]) = EdgeKind(l2.edges[k])
       /\ d1.mob = d2.mob
       /\ Len(d1.entries) = Len(d2.entries)
       /\ \A k \in 1..Len(d1.entries) :
             d1.entries[k].mobile_context = d2.entries[k].mobile_context

\* ---------------------------------------------------------------- properties of the load locations
PlacementOps == ObjLoad \cup Equip \cup Give \cup Put

\* The commands of all zones read, in the order of the zones and of their
\* streams, each with its zone and position.
RECURSIVE FlatFrom(_, _)
FlatFrom(w, z) ==
  IF z > Len(w) THEN <<>>
  ELSE [i \in 1..Len(w[z]) |-> [zone |-> z, pos |-> i, c |-> w[z][i]]] \o FlatFrom(w, z + 1)

\* The commands that place object v, in order.
PlacementsOf(v) == SelectSeq(FlatFrom(cmds, 1), LAMBDA x : x.c.cmd \in PlacementOps /\ x.c.arg1 = v)

\* The commands that place object v on a mobile or in a room, in order.
MobRoomPlacementsOf(v) ==
  SelectSeq(FlatFrom(cmds, 1), LAMBDA x : x.c.cmd \in (ObjLoad \cup Equip \cup Give) /\ x.c.arg1 = v)

\* Position j of stream s holds the M command that an equip at position i
\* follows with only equip/give commands in between.
LoadsMobFor(s, j, i) ==
  /\ j < i
  /\ s[j].cmd = "M"
  /\ \A k \in (j + 1)..(i - 1) : s[k].cmd \in EquipGive

\* x is an E command that follows the load of mobile m as the claim describes.
EquipAfterLoad(x, m) ==
  /\ x.c.cmd = "E"
  /\ \E j \in 1..Len(cmds[x.zone]) :
        LoadsMobFor(cmds[x.zone], j, x.pos) /\ cmds[x.zone][j].arg1 = m

\* The repop entries of all mobiles that name object v.
RepopSitesOf(v) ==
  {<<i, k>> \in {<<i, k>> \in (1..Len(world.mobiles)) \X (1..2) : k <= Len(world.mobiles[i].repops)} :
     world.mobiles[i].repops[k].vnum = v}

SiteProbs(v) ==
  {PlacementsOf(v)[k].c.prob : k \in 1..Len(PlacementsOf(v))}
  \cup {world.mobiles[s[1]].repops[s[2]].percent : s \in RepopSitesOf(v)}

C8_OrderedByProbability ==
  /\ \A i, j \in 1..Len(locations) : i < j => locations[i].probability >= locations[j].probability
  /\ \A i, j \in 1..Len(ws_locations) :
        i < j => ws_locations[i].probability >= ws_locations[j].probability
  /\ \A i, j \in 1..Len(part.locations) : i < j => part.locations[i].rate >= part.locations[j].rate

\* C9: the load locations of a vnum hold no two entries with the same zone
\* and description.
C9_NoDuplicateLocation ==
  /\ \A i, j \in 1..Len(locations) :
        i < j => <<locations[i].zone, locations[i].location>> # <<locations[j].zone, locations[j].location>>
  /\ \A i, j \in 1..Len(ws_locations) :
        i < j => <<ws_locations[i].zone, ws_locations[i].location>>
                   # <<ws_locations[j].zone, ws_locations[j].location>>

\* C7: every probability of a load location and every best rate lies in
\* 0..100, whatever the prob fields of the commands and repop entries.
C7_ProbabilityInRange ==
  /\ \A k \in 1..Len(locations) : locations[k].probability \in 0..100
  /\ \A k \in 1..Len(ws_locations) : ws_locations[k].probability \in 0..100
  /\ \A k \in 1..Len(part.locations) : part.locations[k].rate \in 0..100
  /\ part.best_rate \in 0..100

\* ---------------------------------------------------------------- properties of the recipe analysis
\* The part analysis of vnum v in the current state.
PartOf(v) == analyze_part_loadability(world, ai_index, v)

RECURSIVE RateProduct(_)
RateProduct(parts) ==
  IF parts = <<>> THEN 1 ELSE PartOf(Head(parts)).best_rate * RateProduct(Tail(parts))

RECURSIVE ApiRateProduct(_)
ApiRateProduct(parts) ==
  IF parts = <<>> THEN 1
  ELSE best_prob(ws_get_load_locations(ws_locs, Head(parts))) * ApiRateProduct(Tail(parts))

\* The product p of the rates of n parts, as a rate scaled by Scale.
AsRate(p, n) == (100 ^ (MaxParts + 1 - n)) * p

\* Every order of a part list.
Orders(parts) ==
  LET n == Len(parts)
  IN {[k \in 1..n |-> parts[f[k]]] :
        f \in {g \in [1..n -> 1..n] : \A i, j \in 1..n : g[i] = g[j] => i = j}}

OnCycle(v) ==
  \E r1, r2 \in world.recipes :
    /\ r1.result_vnum = v
    /\ r2.result_vnum # v
    /\ \E i \in 1..Len(r1.parts) : r1.parts[i] = r2.result_vnum
    /\ \E j \in 1..Len(r2.parts) : r2.parts[j] = v

\* Vnum v lies on a recipe cycle and has no placement site.
CycleOnly(v) == OnCycle(v) /\ SiteProbs(v) = {}

\* C6: a vnum that lies only on a recipe cycle, with no placement site, is
\* reported unreachable by every evaluation, and so is a recipe with such a
\* part.
C6_CycleOnlyUnreachable ==
  /\ (qv # None /\ CycleOnly(qv)) =>
        /\ ~accessible
        /\ ~part.loadable
        /\ ws_locations = <<>>
  /\ (recipe # NoRecipe /\ \E k \in 1..Len(recipe.parts) : CycleOnly(recipe.parts[k])) =>
        /\ ~analysis.all_parts_loadable
        /\ analysis.overall_rate = 0
        /\ ~api_analysis.accessible

\* The part of C6 that does not ask is_entity_accessible.
C6_NoAccessible ==
  /\ (qv # None /\ CycleOnly(qv)) =>
        /\ ~part.loadable
        /\ ws_locations = <<>>
  /\ (recipe # NoRecipe /\ \E k \in 1..Len(recipe.parts) : CycleOnly(recipe.parts[k])) =>
        /\ ~analysis.all_parts_loadable
        /\ analysis.overall_rate = 0
        /\ ~api_analysis.accessible

\* ---------------------------------------------------------------- properties of the conditional flag
\* Stream s with every conditional flag cleared.
EraseFlags(s) == [i \in 1..Len(s) |-> [s[i] EXCEPT !.flag = 0]]

\* render_resets over the whole stream s.
RECURSIVE rr_run(_, _, _)
rr_run(s, ctx, lines) ==
  IF s = <<>> THEN [ctx |-> ctx, lines |-> lines]
  ELSE LET r == render_resets_step(ctx, Head(s))
       IN rr_run(Tail(s), r.ctx, Append(lines, r.line))

\* A line, an edge and a row without the recorded flag.
LineSansFlag(l) == [l EXCEPT !.flag = 0]

EdgeSansFlag(e) == [e EXCEPT !.ctx.flag = 0]

RowSansFlag(r) == [r EXCEPT !.if_flag = 0, !.raw.flag = 0]

\* C11: the contexts, the attribution of every equip, give and put command
\* and the rows are those of the same stream with every conditional flag
\* cleared, so two streams that differ only in flags are interpreted alike;
\* the flag shows only in the line prefix, the row's if_flag and the raw JSON.
C11_FlagIsMetadata ==
  LET e == EraseFlags(cmds[zone])
      rr == rr_run(e, rr_init, <<>>)
      lut == lut_run(e, zone, 0, None, <<>>, <<>>)
  IN /\ rr_ctx = rr.ctx
     /\ Len(rr_lines) = Len(rr.lines)
     /\ \A i \in 1..Len(rr_lines) : LineSansFlag(rr_lines[i]) = rr.lines[i]
     /\ \A i \in 1..Len(rr_lines) : rr_lines[i].flag = IntOr(cmds[zone][i].flag, 0)
     /\ lut_mob = lut.mob
     /\ Len(lut_edges) = Len(lut.edges)
     /\ \A i \in 1..Len(lut_edges) : EdgeSansFlag(lut_edges[i]) = lut.edges[i]
     /\ Len(lut_zrows) = Len(lut.zrows)
     /\ \A i \in 1..Len(lut_zrows) :
           /\ RowSansFlag(lut_zrows[i]) = lut.zrows[i]
           /\ lut_zrows[i].if_flag = cmds[zone][i].flag

\* C11 witness: a flagged M sets the context and a flagged E is attributed to it.
C11_Witness ==
  /\ Len(cmds[zone]) = 2
  /\ cmds[zone][1].cmd = "M" /\ cmds[zone][1].flag = 1 /\ cmds[zone][1].arg1 = 2
  /\ cmds[zone][2].cmd = "E" /\ cmds[zone][2].flag = 1
  /\ rr_ctx.current_mob = 2
  /\ rr_lines[2].target = 2
  /\ Len(lut_edges) = 4
  /\ lut_edges[3].src_vnum = 2

\* ---------------------------------------------------------------- properties of the zone-command rows
\* C12: the rows of a zone, in index order, are the commands of its cmds list
\* in their order, one row per command, each row's index the position of its
\* command (from 0 in zone_cmd, from 1 in zone_commands).
C12_OneRowPerCommand ==
  /\ Len(lut_zrows) = Len(cmds[zone])
  /\ \A i \in 1..Len(lut_zrows) :
        i <= Len(cmds[zone]) => lut_zrows[i].idx = i - 1 /\ lut_zrows[i].raw = cmds[zone][i]
  /\ Len(pz_rows) = Len(cmds[zone])
  /\ \A i \in 1..Len(pz_rows) : pz_rows[i].sequence = i /\ pz_rows[i].raw = cmds[zone][i]

\* ---------------------------------------------------------------- properties of the index builds
\* The rows of a table that carry path p.
EdgesOf(d, p) == SelectSeq(d.edge, LAMBDA r : r.source_path = p)

ZoneCmdsOf(d, p) == {r \in d.zone_cmd : r.source_path = p}

RefsOf(d, p) == SelectSeq(d.ref, LAMBDA r : r.source_path = p)

ErrorsOf(d, p) == SelectSeq(d.parse_error, LAMBDA r : r.source_path = p)

EntitiesOf(d, p) == {r \in d.entity : r.path = p}

\* The last build scanned the zone directory of path p.
Scanned(p) == PathZone(p) \in ScannedZones(last_build.zones)

\* C13: a build that repeats the one before it, with the same zones filter
\* and full flag and no file written or removed in between, leaves the
\* entity, edge and zone_cmd tables as they were, in either detection mode.
C13_BuildIdempotent ==
  repeat =>
    /\ db.entity = prev_db.entity
    /\ db.edge = prev_db.edge
    /\ db.zone_cmd = prev_db.zone_cmd

\* C13 witness: an incremental build in sha1 mode repeated over a store that
\* holds entities, edges and zone commands.
C13_Witness ==
  /\ repeat
  /\ use_sha1
  /\ ~last_build.full
  /\ db.entity # {}
  /\ db.edge # <<>>
  /\ db.zone_cmd # {}

DerivedRows(p) ==
  IF parse_entity_vnum(p, fs[p].body) # None THEN file_rows(p, fs[p].body) ELSE NoRows

\* C15: after an incremental build has reprocessed a file that was written
\* since the build before, the edge, zone_cmd and ref rows that carry its
\* path are the rows derived from its present content and no others.
C15_RowsOfChangedFileRebuilt ==
  \A p \in changed_before :
    (builds > 0 /\ changed = {} /\ ~last_build.full /\ Scanned(p) /\ fs[p].exists
     /\ fs[p].body.ok) =>
      /\ EdgesOf(db, p) = DerivedRows(p).edge_rows
      /\ ZoneCmdsOf(db, p) = {DerivedRows(p).zone_cmd_rows[i] : i \in 1..Len(DerivedRows(p).zone_cmd_rows)}
      /\ RefsOf(db, p) = DerivedRows(p).ref_rows

\* C15 witness: the zone file had two commands indexed, was rewritten with
\* one, and the incremental build left the one row of its present content.
C15_Witness ==
  /\ builds > 1
  /\ changed = {}
  /\ ~last_build.full
  /\ ZoneFile \in changed_before
  /\ fs[ZoneFile].exists
  /\ Len(fs[ZoneFile].body.cmds) = 1
  /\ Cardinality(ZoneCmdsOf(prev_db, ZoneFile)) = 2
  /\ Cardinality(ZoneCmdsOf(db, ZoneFile)) = 1
  /\ Len(EdgesOf(prev_db, ZoneFile)) = 4
  /\ Len(EdgesOf(db, ZoneFile)) = 2

\* No row of store d carries path p.
NoRowOf(d, p) ==
  /\ EntitiesOf(d, p) = {}
  /\ EdgesOf(d, p) = <<>>
  /\ ZoneCmdsOf(d, p) = {}
  /\ RefsOf(d, p) = <<>>
  /\ ErrorsOf(d, p) = <<>>
  /\ ~d.file_state[p].known

\* C16: after a build of all zones no row of any table carries the path of
\* a file that is no longer in the world, and a build with a zones filter
\* leaves every row of the files outside the scanned zones as it was.
C16_PrunedOnlyByFullScan ==
  (builds > 0 /\ changed = {}) =>
    \A p \in PathSet :
      /\ (last_build.zones = {} /\ ~fs[p].exists) => NoRowOf(db, p)
      /\ (last_build.zones # {} /\ ~Scanned(p)) =>
            /\ EntitiesOf(db, p) = EntitiesOf(prev_db, p)
            /\ EdgesOf(db, p) = EdgesOf(prev_db, p)
            /\ ZoneCmdsOf(db, p) = ZoneCmdsOf(prev_db, p)
            /\ RefsOf(db, p) = RefsOf(prev_db, p)
            /\ ErrorsOf(db, p) = ErrorsOf(prev_db, p)
            /\ db.file_state[p] = prev_db.file_state[p]

\* C17: after a build, a scanned file that does not load as JSON has exactly
\* one parse_error row and no entity row, and every scanned file that does
\* load has been processed.
C17_BadFileOneError ==
  builds > 0 =>
    \A p \in PathSet :
      (Scanned(p) /\ fs[p].exists /\ ~fs[p].body.ok /\ changed = {}) =>
        /\ Len(ErrorsOf(db, p)) = 1
        /\ EntitiesOf(db, p) = {}
        /\ \A q \in PathSet :
              (Scanned(q) /\ fs[q].exists /\ fs[q].body.ok) => db.file_state[q].known

\* The part of C17 about the other files: a file that does not load leaves
\* every scanned file that loads processed, its state recorded as it is now.
C17_SiblingsProcessed ==
  (builds > 0 /\ changed = {}) =>
    \A q \in PathSet :
      (Scanned(q) /\ fs[q].exists /\ fs[q].body.ok) =>
        /\ db.file_state[q].known
        /\ db.file_state[q].mtime = fs[q].mtime

\* C18: after a build, a scanned file that loads but has no vnum, neither in
\* its data nor in its file name, has exactly one parse_error row and no
\* entity row, and the files after it have been processed.
C18_NoVnumOneError ==
  builds > 0 =>
    \A p \in PathSet :
      (Scanned(p) /\ fs[p].exists /\ fs[p].body.ok /\ changed = {}
       /\ parse_entity_vnum(p, fs[p].body) = None) =>
        /\ Len(ErrorsOf(db, p)) = 1
        /\ EntitiesOf(db, p) = {}

\* ---------------------------------------------------------------- properties of the zone resolver
\* Zone z of the dataset owns vnum v: z * 100 <= v <= z.top.
Owns(z, v) ==
  /\ z \in ZoneNumSet
  /\ zone_dirs[z].is_dir
  /\ zone_dirs[z].top # None
  /\ z * 100 <= v
  /\ v <= zone_dirs[z].top

\* A well-formed dataset: every zone directory has a zone file with a top
\* not below its start, and no vnum lies in the range of two zones.
WellFormed ==
  /\ \A z \in ZoneNumSet :
        zone_dirs[z].is_dir => (zone_dirs[z].top # None /\ zone_dirs[z].top >= z * 100)
  /\ \A y, z \in ZoneNumSet :
        (y < z /\ zone_dirs[y].is_dir /\ zone_dirs[z].is_dir) => zone_dirs[y].top < z * 100

\* C19: in a well-formed dataset, for the vnum last looked up, when the hint
\* names the zone that owns it, a directory heuristic finds a directory and
\* the range index finds a range, the three zones are equal; and the zone a
\* lookup returned owns the vnum.
C19_PathsAgree ==
  (resolved.asked /\ WellFormed) =>
    LET v == resolved.vnum
        by_dir == heuristic_zone(zone_dirs, v)
        by_index == range_zone(zone_index(zone_dirs), v)
    IN /\ (hint_zone # None /\ Owns(hint_zone, v) /\ by_dir # None /\ by_index # None) =>
            (resolved.zone = hint_zone /\ by_dir = hint_zone /\ by_index = hint_zone)
       /\ resolved.zone # None => Owns(resolved.zone, v)

\* The first half of C19 alone: the three paths agree.
C19_ThreePathsEqual ==
  (resolved.asked /\ WellFormed) =>
    LET v == resolved.vnum
        by_dir == heuristic_zone(zone_dirs, v)
        by_index == range_zone(zone_index(zone_dirs), v)
    IN (hint_zone # None /\ Owns(hint_zone, v) /\ by_dir # None /\ by_index # None) =>
         (resolved.zone = hint_zone /\ by_dir = hint_zone /\ by_index = hint_zone)

\* The second half of C19 alone, for lookups without a hint.
C19_UnhintedZoneOwns ==
  (resolved.asked /\ WellFormed /\ hint_zone = None /\ resolved.zone # None) =>
    Owns(resolved.zone, resolved.vnum)

\* ---------------------------------------------------------------- properties of edited probabilities
\* The readers' state is the state reading the zone file afresh gives.
ScanIsRescan ==
  zone = 1 =>
    LET st == scan_run(ScanStart, 1, cmds[1])
    IN /\ ai_index = st.ai_index /\ ws_locs = st.ws_locs /\ ds_index = st.ds_index
       /\ gs_assoc = st.gs_assoc /\ rr_lines = st.rr_lines /\ lut_edges = st.lut_edges
       /\ lut_zrows = st.lut_zrows /\ pz_rows = st.pz_rows

\* reach(v).probability as the explorer and the API service report it.
ReachRate(idx, v) == analyze_part_loadability(world, idx, v).best_rate
ApiReachRate(locs, v) == analyze_assembly_accessibility(locs, <<v>>).success_rate

\* The step appends one command that is a placement site of v with a
\* probability above that of every site v has.
HigherSiteAdded(v) ==
  /\ Len(cmds') = Len(cmds)
  /\ Len(cmds'[zone]) = Len(cmds[zone]) + 1
  /\ SubSeq(cmds'[zone], 1, Len(cmds[zone])) = cmds[zone]
  /\ LET before == analyze_part_loadability(world, ai_index, v).locations
         after == analyze_part_loadability(world, ai_index', v).locations
         c == cmds'[zone][Len(cmds'[zone])]
     IN /\ Len(after) = Len(before) + 1
        /\ \A i \in 1..Len(before) : before[i].rate < safe_int(Get(c.prob, 100))

\* The step lowers the prob of one command of the zone file.
ProbLowered ==
  /\ Len(cmds') = Len(cmds)
  /\ \E k \in 1..Len(cmds[zone]) :
       /\ cmds[zone][k].prob # None
       /\ cmds'[zone][k].prob # None
       /\ cmds'[zone][k].prob < cmds[zone][k].prob
       /\ cmds'[zone] = [cmds[zone] EXCEPT ![k].prob = cmds'[zone][k].prob]

\* Every step is monotone: a higher site does not lower the rate of its vnum
\* and a lowered prob does not raise the rate of any recipe.
MonotoneStep ==
  /\ \A v \in PartVnums :
       HigherSiteAdded(v) =>
         /\ ReachRate(ai_index', v) >= ReachRate(ai_index, v)
         /\ ApiReachRate(ws_locs', v) >= ApiReachRate(ws_locs, v)
  /\ ProbLowered =>
       \A r \in world.recipes :
         /\ analyze_accessibility(world, ai_index', zone, r).overall_rate
              <= analyze_accessibility(world, ai_index, zone, r).overall_rate
         /\ analyze_assembly_accessibility(ws_locs', r.parts).success_rate
              <= analyze_assembly_accessibility(ws_locs, r.parts).success_rate

\* Every prob of the zone file lies in 0..100.
ProbsInRange(w) ==
  \A z \in 1..Len(w) : \A i \in 1..Len(w[z]) :
    w[z][i].prob # None => (0 <= w[z][i].prob /\ w[z][i].prob <= 100)

\* C20: adding a placement site for a vnum with a probability above that of
\* every site it has never lowers the rate reported for the vnum, and
\* lowering the prob of a placement of a recipe's part never raises the rate
\* reported for the recipe.
C20_ReachMonotone == [][MonotoneStep]_vars

\* C20 for zone files whose probs all lie in 0..100.
C20_MonotoneInRange == [][(ProbsInRange(cmds) /\ ProbsInRange(cmds')) => MonotoneStep]_vars

\* ---------------------------------------------------------------- properties of the script fallback
\* The placement sites the zone commands give vnum v in the part analysis.
StructuralSites(v) == PartLocations(world, SelectSeq(ai_index, LAMBDA e : e.key = v))

\* World w with no script file and no special procedure on any mobile.
WithoutHeuristics(w) ==
  [w EXCEPT !.scripts = <<>>,
            !.mobiles = [i \in 1..Len(w.mobiles) |-> [w.mobiles[i] EXCEPT !.spec_proc = FALSE]]]

\* C21: for a queried vnum with at least one structural placement site, the
\* part analysis (loadable, best rate) and the accessibility verdict are
\* those of the same world without scripts and special procedures.
C21_FallbackOnlyWithoutSites ==
  (qv # None /\ StructuralSites(qv) # <<>>) =>
    LET bare == WithoutHeuristics(world)
        p == analyze_part_loadability(bare, ai_index, qv)
    IN /\ part.loadable = p.loadable
       /\ part.best_rate = p.best_rate
       /\ accessible = part_accessible(bare, ds_index, cmds, qv)

\* World w with the special procedure kept only on mobiles whose file names
\* vnum v and with only the scripts whose text mentions v.
RelatedOnly(w, v) ==
  [w EXCEPT !.scripts = SelectSeq(w.scripts, LAMBDA sc : v \in sc.script_mentions),
            !.mobiles = [i \in 1..Len(w.mobiles) |->
                           [w.mobiles[i] EXCEPT !.spec_proc =
                              @ /\ \E k \in 1..Len(w.mobiles[i].repops) : w.mobiles[i].repops[k].vnum = v]]]

\* C22: the verdict for a queried object without a structural placement site
\* is the verdict in the world stripped of the mobiles and scripts unrelated
\* to it, and it is positive only through a script that mentions the vnum
\* with an object-creation keyword or a related special procedure.
C22_VerdictIgnoresUnrelated ==
  (qv # None /\ detect_entity_type(world, qv) = "object"
   /\ get_load_locations(world, ds_index, qv) = <<>>) =>
    accessible = part_accessible(RelatedOnly(world, qv), ds_index, cmds, qv)

\* ---------------------------------------------------------------- properties of the room-object context
\* The O/X command whose object is the context before command i of stream s:
\* the last one before i that only E/Z, G/Y and P/Q commands follow.
ObjLoadBefore(s, i) ==
  {j \in 1..(i - 1) :
     /\ s[j].cmd \in ObjLoad
     /\ \A k \in (j + 1)..(i - 1) : s[k].cmd \in Equip \cup Give \cup Put}

RoomObjBefore(s, i) ==
  IF ObjLoadBefore(s, i) = {} THEN None
  ELSE IntOr(s[CHOOSE j \in ObjLoadBefore(s, i) : TRUE].arg1, 0)

\* C28: the room-object context of render_resets is set exactly from an O/X
\* command until the next M/W, R, D, A or unknown command, E/Z, G/Y and P/Q
\* leave it as it is, and a P/Q line is indented under the context exactly
\* when the context is set and the command's arg3 is the object it holds.
C28_RoomObjectContext ==
  LET s == cmds[zone]
  IN /\ rr_ctx.last_room_obj = RoomObjBefore(s, Len(s) + 1)
     /\ rr_ctx.room_obj_block_active = (RoomObjBefore(s, Len(s) + 1) # None)
     /\ \A i \in 1..Len(s) :
          s[i].cmd \in Put =>
            ((rr_lines[i].indent = 4)
               <=> (RoomObjBefore(s, i) # None /\ IntOr(s[i].arg3, 0) = RoomObjBefore(s, i)))

\* C28 witness: an object load, an equip or give, then a put into the loaded
\* object that is attributed to it, the context still set afterwards.
C28_Witness ==
  LET s == cmds[zone]
  IN /\ Len(s) = 3
     /\ s[1].cmd \in ObjLoad
     /\ s[2].cmd \in Equip \cup Give
     /\ s[3].cmd \in Put
     /\ rr_lines[3].indent = 4
     /\ rr_ctx.last_room_obj = s[1].arg1

\* ---------------------------------------------------------------- properties of the result fields
\* C30: in every result the verdict and the rate agree: the part queried is
\* loadable only with a best rate above 0 and has rate 0 when not loadable,
\* and the recipe analysed has all parts loadable, or is accessible, only
\* with a rate above 0 and has rate 0 otherwise.
C30_FieldsAgree ==
  /\ qv # None =>
       /\ part.loadable => part.best_rate > 0
       /\ ~part.loadable => part.best_rate = 0
  /\ recipe # NoRecipe =>
       /\ analysis.all_parts_loadable => analysis.overall_rate > 0
       /\ ~analysis.all_parts_loadable => analysis.overall_rate = 0
       /\ api_analysis.accessible => api_analysis.success_rate > 0
       /\ ~api_analysis.accessible => api_analysis.success_rate = 0

\* C30 for the part analysis alone.
C30_PartFieldsAgree == qv # None => (part.loadable <=> part.best_rate > 0)

\* C30 for the two recipe analyses alone.
C30_RecipeFieldsAgree ==
  recipe # NoRecipe =>
    /\ analysis.all_parts_loadable <=> analysis.overall_rate > 0
    /\ api_analysis.accessible <=> api_analysis.success_rate > 0

\* ---------------------------------------------------------------- properties of incremental builds
\* The store a full rebuild of the present world gives on an empty store.
FullRebuild == build(EmptyDb, fs, {}, TRUE, use_sha1)

\* Two row sequences hold the same rows the same number of times.
SameRows(a, b) ==
  \A r \in {a[i] : i \in 1..Len(a)} \cup {b[i] : i \in 1..Len(b)} :
    Cardinality({i \in 1..Len(a) : a[i] = r}) = Cardinality({i \in 1..Len(b) : b[i] = r})

\* C29: after file edits, each followed in time by unfiltered incremental
\* builds, the entity, edge and zone_cmd tables are those of a full rebuild
\* of the present world.
C29_IncrementalIsFull ==
  (builds > 0 /\ changed = {}) =>
    /\ db.entity = FullRebuild.entity
    /\ SameRows(db.edge, FullRebuild.edge)
    /\ db.zone_cmd = FullRebuild.zone_cmd

\* C29 for worlds in which every file loads, for the entity table alone.
C29_EntitiesOfLoadableWorld ==
  (builds > 0 /\ changed = {} /\ \A p \in PathSet : fs[p].exists => fs[p].body.ok) =>
    {[etype |-> r.etype, vnum |-> r.vnum] : r \in db.entity}
      = {[etype |-> r.etype, vnum |-> r.vnum] : r \in FullRebuild.entity}

\* C29 for worlds in which every file loads, for the edge and zone_cmd tables.
C29_EdgesOfLoadableWorld ==
  (builds > 0 /\ changed = {} /\ \A p \in PathSet : fs[p].exists => fs[p].body.ok) =>
    /\ SameRows(db.edge, FullRebuild.edge)
    /\ db.zone_cmd = FullRebuild.zone_cmd


\* ---------------------------------------------------------------- properties of the assemble edges
ProducesRelations == {"produces", "produces:result", "produces:product", "produces:produces"}

\* The produces edges of the assemble file, whatever key they come from.
ProducesEdges == SelectSeq(asm_edges, LAMBDA e : e.relation \in ProducesRelations)

\* C23: the builder emits exactly one produces edge for an assemble file; it
\* points at the explicit result when there is one that differs from the
\* assemble's vnum, and at the assemble's own vnum otherwise.
C23_OneProducesEdge ==
  asm # NoAsm =>
    /\ Len(ProducesEdges) = 1
    /\ ProducesEdges[1].dst_vnum =
         (IF asm.result # None /\ asm.result # asm.vnum THEN asm.result ELSE asm.vnum)

\* The convention edge alone: exactly one edge has the relation "produces",
\* and it points at the assemble's own vnum.
C23_ConventionEdge ==
  asm # NoAsm =>
    LET conv == SelectSeq(asm_edges, LAMBDA e : e.relation = "produces")
    IN Len(conv) = 1 /\ conv[1].dst_vnum = asm.vnum

\* Without an overriding key there is one produces edge.
C23_NoOverride ==
  (asm # NoAsm /\ asm.result \in {None, asm.vnum} /\ asm.product \in {None, asm.vnum}
     /\ asm.produces \in {None, asm.vnum}) =>
    Len(ProducesEdges) = 1

\* ---------------------------------------------------------------- properties of the entity lookups
\* C24: for every object or mobile file of the dataset, a lookup of its vnum
\* on a World without a hint detects the kind of the file, and
\* get_entity_by_vnum returns an entity of that kind.
C24_KindOfFile ==
  \A f \in ent_files :
    f[2] \in {"object", "mobile"} =>
      /\ (detected.asked /\ detected.hint = None /\ detected.vnum = f[3]) => detected.kind = f[2]
      /\ (got.asked /\ got.vnum = f[3]) => got.entity.entity_type = f[2]

\* The same for a vnum that one file only carries, in the directory vnum // 100.
C24_UnsharedVnum ==
  \A f \in ent_files :
    (f[1] = f[3] \div 100 /\ \A g \in ent_files : g[3] = f[3] => g = f) =>
      /\ (detected.asked /\ detected.hint = None /\ detected.vnum = f[3]) => detected.kind = f[2]
      /\ (got.asked /\ got.vnum = f[3]) => got.entity.entity_type = f[2]

\* C25: when the hint names a zone that does not own the vnum and another
\* zone of a well-formed dataset does, the resolver returns the owning zone.
C25_HintFallsThrough ==
  (resolved.asked /\ WellFormed /\ resolved.hint # None /\ ~Owns(resolved.hint, resolved.vnum)
     /\ \E z \in ZoneNumSet : Owns(z, resolved.vnum)) =>
    Owns(resolved.zone, resolved.vnum)

\* The steps after the hint, in their order, for a lookup without a hint.
C25_OrderWithoutHint ==
  (resolved.asked /\ resolved.hint = None) =>
    LET v == resolved.vnum
        z1 == v \div 100
        z2 == (z1 \div 10) * 10
    IN IF z1 \in ZoneNumSet /\ zone_dirs[z1].is_dir THEN resolved.zone = z1
       ELSE IF z2 \in ZoneNumSet /\ zone_dirs[z2].is_dir THEN resolved.zone = z2
       ELSE resolved.zone = range_zone(zone_index(zone_dirs), v)

\* detect_entity_type under a hint whose zone has no file of the vnum, the
\* directory vnum // 100 having one: a kind is detected.
C25_DetectFallsThrough ==
  (detected.asked /\ detected.hint # None
     /\ (\A k \in FileKinds : <<detected.hint, k, detected.vnum>> \notin ent_files)
     /\ \E k \in FileKinds : <<detected.vnum \div 100, k, detected.vnum>> \in ent_files) =>
    detected.kind # NoKind

\* load under the same conditions, for the kind asked: data is returned.
C25_LoadFallsThrough ==
  (loaded.asked /\ loaded.hint # None
     /\ <<loaded.hint, loaded.kind, loaded.vnum>> \notin ent_files
     /\ <<loaded.vnum \div 100, loaded.kind, loaded.vnum>> \in ent_files) =>
    loaded.data # NoData


\* ---------------------------------------------------------------- properties of the commit points
\* The committed file-state row of p records the file as it is now.
StateCurrent(d, p) ==
  /\ fs[p].exists
  /\ d.file_state[p].known
  /\ ~needs_update(d, p, fs[p].mtime, fs[p].body.size, FileHash(fs[p].body, use_sha1))

\* Every row the content of p yields is in store d: its entity key, and its
\* edge, zone_cmd and ref rows.
RowsCommitted(d, p) ==
  (fs[p].body.ok /\ parse_entity_vnum(p, fs[p].body) # None) =>
    LET r == file_rows(p, fs[p].body)
    IN /\ \E e \in d.entity : e.etype = PathKind(p) /\ e.vnum = parse_entity_vnum(p, fs[p].body)
       /\ SelectSeq(d.edge, LAMBDA x : x.source_path = p) = r.edge_rows
       /\ {x \in d.zone_cmd : x.source_path = p} = {r.zone_cmd_rows[i] : i \in 1..Len(r.zone_cmd_rows)}
       /\ SelectSeq(d.ref, LAMBDA x : x.source_path = p) = r.ref_rows

\* C26: in the committed store, a file whose file-state row records its
\* current mtime, size and hash has all the rows of its content, so that a
\* file whose rows are missing is not skipped by the next run.
C26_CommittedConsistent ==
  \A p \in PathSet : StateCurrent(db, p) => RowsCommitted(db, p)

\* The commits themselves: a commit that brings the file-state row of p up
\* to date brings the rows of p with it.
CommitStep ==
  \A p \in PathSet :
    (db'.file_state[p] # db.file_state[p] /\ StateCurrent(db', p)) => RowsCommitted(db', p)

C26_CommitsAtomic == [][CommitStep]_vars

\* The rows other than the entity row.
C26_DerivedRowsConsistent ==
  \A p \in PathSet :
    StateCurrent(db, p) =>
      LET r == file_rows(p, fs[p].body)
      IN (fs[p].body.ok /\ parse_entity_vnum(p, fs[p].body) # None) =>
           /\ SelectSeq(db.edge, LAMBDA x : x.source_path = p) = r.edge_rows
           /\ {x \in db.zone_cmd : x.source_path = p} = {r.zone_cmd_rows[i] : i \in 1..Len(r.zone_cmd_rows)}
           /\ SelectSeq(db.ref, LAMBDA x : x.source_path = p) = r.ref_rows

\* A build that runs to its end, resuming interrupted builds or not, leaves
\* the file-state, entity, edge, zone_cmd and ref tables build computes in one go.
C26_FinishedIsBuild ==
  (run.outcome = "finished" /\ changed = {}) =>
    LET d == build(run.start, fs, {}, run.full, use_sha1)
    IN /\ db.file_state = d.file_state
       /\ db.entity = d.entity
       /\ db.edge = d.edge
       /\ db.zone_cmd = d.zone_cmd
       /\ db.ref = d.ref


\* ---------------------------------------------------------------- properties of the parallel loads
\* Every call of World.load a worker has finished returned what the call
\* returns when no other call runs.
LoadsAreSequential ==
  \A t \in 1..Len(tasks) :
    tasks[t].pc \in {"done", "collected"} =>
      tasks[t].data = ds_load(zone_dirs, ent_files, ge.kind, tasks[t].file.vnum)

\* The World the workers leave behind is the one sequential loads leave.
WorldIsSequential ==
  ge.phase = "done" =>
    /\ \A key \in DOMAIN ds_world.cache :
         ds_world.cache[key] = ds_load(zone_dirs, ent_files, key[1], key[2])
    /\ ds_world.built =>
         /\ ds_world.ranges = zone_index(zone_dirs)
         /\ ds_world.starts = [j \in 1..Len(ds_world.ranges) |-> ds_world.ranges[j].start]

\* C27: whatever the interleaving of the workers, every load returns its
\* sequential value and the entity map get_entities ends with is the map of
\* the sequential execution.
C27_ParallelIsSequential ==
  /\ LoadsAreSequential
  /\ ge.phase = "done" => ge.entities = get_entities_sequential(zone_dirs, ent_files, ge.kind)

\* The entity map but for the zone recorded with each entity.
C27_MapButZone ==
  ge.phase = "done" =>
    LET seq == get_entities_sequential(zone_dirs, ent_files, ge.kind)
    IN /\ DOMAIN ge.entities = DOMAIN seq
       /\ \A v \in DOMAIN seq :
            /\ ge.entities[v].data = seq[v].data
            /\ ge.entities[v].entity_type = seq[v].entity_type
            /\ ge.entities[v].zone \in file_zones(zone_dirs, ent_files, ge.kind, v)

====
